---- MODULE Spec2Model ----
(***************************************************************************)
(* PathFinderPro: the borrower qualification engine.                       *)
(*                                                                         *)
(* The server engine is calculateBorrowerMetrics (routes/borrowers.js, the *)
(* second module of src/routes/api.js); the browser keeps a second copy of *)
(* the arithmetic in src/public/js/app.js for its live preview.  The state *)
(* machine is one interview: the borrowers row, the calculations returned  *)
(* by POST /:id/save and the figures the live preview shows.               *)
(*                                                                         *)
(* Numbers.  JavaScript numbers are modelled as extended rationals         *)
(* [n, d] in lowest terms: d > 0 is the rational n/d, 1/0 and -1/0 are     *)
(* +Infinity and -Infinity, 0/0 is NaN.  Rounding error of IEEE doubles is *)
(* not modelled; Math.pow is evaluated in fixed point and rounded.         *)
(***************************************************************************)
EXTENDS Integers, Sequences, FiniteSets, TLC

(***************************************************************************)
(* Arithmetic of JavaScript numbers                                        *)
(***************************************************************************)
Abs(x) == IF x < 0 THEN -x ELSE x

Sign(x) == IF x < 0 THEN -1 ELSE IF x > 0 THEN 1 ELSE 0

RECURSIVE GCD(_, _)
GCD(a, b) == IF b = 0 THEN a ELSE GCD(b, a % b)

\* the number n/d, d >= 0, in lowest terms
Norm(n, d) ==
  IF d = 0 THEN [n |-> Sign(n), d |-> 0]
  ELSE LET g == GCD(Abs(n), d) IN [n |-> n \div g, d |-> d \div g]

R(i) == [n |-> i, d |-> 1]

Frac(a, b) == Norm(a, b)

NaN == [n |-> 0, d |-> 0]

Infinity == [n |-> 1, d |-> 0]

Zero == R(0)

IsNaN(x) == x.d = 0 /\ x.n = 0

IsFinite(x) == x.d > 0

\* x + y (finite operands)
RAdd(x, y) ==
  LET g == GCD(x.d, y.d)
      l == (x.d \div g) * y.d
  IN  Norm(x.n * (l \div x.d) + y.n * (l \div y.d), l)

RNeg(x) == [n |-> -x.n, d |-> x.d]

\* x - y (finite operands)
RSub(x, y) == RAdd(x, RNeg(y))

\* x * y (finite operands), cancelling before multiplying
RMul(x, y) ==
  LET g1 == GCD(Abs(x.n), y.d)
      g2 == GCD(Abs(y.n), x.d)
  IN  Norm((x.n \div g1) * (y.n \div g2), (x.d \div g2) * (y.d \div g1))

\* x / y (finite operands): n/0 is +-Infinity, 0/0 is NaN
RDiv(x, y) ==
  IF y.n = 0 THEN [n |-> Sign(x.n), d |-> 0]
  ELSE RMul(x, [n |-> Sign(y.n) * y.d, d |-> Abs(y.n)])

\* x < y; every comparison with NaN is false
RLt(x, y) ==
  IF IsNaN(x) \/ IsNaN(y) THEN FALSE
  ELSE IF x.d = 0 \/ y.d = 0 THEN x.n * y.d < y.n * x.d
  ELSE LET g == GCD(x.d, y.d) IN x.n * (y.d \div g) < y.n * (x.d \div g)

\* x <= y
RLe(x, y) == ~IsNaN(x) /\ ~IsNaN(y) /\ ~RLt(y, x)

\* x > y
RGt(x, y) == RLt(y, x)

\* Math.max(x, y) (finite operands)
MathMax(x, y) == IF RLt(x, y) THEN y ELSE x

\* x || dflt : NaN and 0 are falsy
OrElse(x, dflt) == IF IsNaN(x) \/ x.n = 0 THEN dflt ELSE x

\* Math.floor(x) (finite operand), as an integer
Floor(x) == IF x.n >= 0 THEN x.n \div x.d ELSE -((-x.n + x.d - 1) \div x.d)

\* Math.round(x) (finite operand): floor(x + 0.5)
MathRound(x) == R(Floor(RAdd(x, Frac(1, 2))))

(***************************************************************************)
(* Math.pow(x, n) for a finite x >= 0 and an integer n >= 0: evaluated in  *)
(* fixed point with eight decimals by repeated squaring, the result        *)
(* rounded to one decimal.                                                 *)
(***************************************************************************)
\* floor(a * b / 10^8) for a, b < 2^31 whose product fits after scaling
MulFix(a, b) ==
  LET ah == a \div 10000
      al == a % 10000
      bh == b \div 10000
      bl == b % 10000
      t  == ah * bl + al * bh + ((al * bl) \div 10000)
  IN  ah * bh + (t \div 10000)

\* floor(x * 10^8) by long division, four decimals at a time
ToFix(x) ==
  LET ip == x.n \div x.d
      r0 == x.n % x.d
      q1 == (r0 * 10000) \div x.d
      r1 == (r0 * 10000) % x.d
      q2 == (r1 * 10000) \div x.d
  IN  ip * 100000000 + q1 * 10000 + q2

RECURSIVE PowFix(_, _)
PowFix(f, n) ==
  IF n = 0 THEN 100000000
  ELSE IF n % 2 = 0
       THEN LET h == PowFix(f, n \div 2) IN MulFix(h, h)
       ELSE MulFix(f, PowFix(f, n - 1))

MathPow(x, n) == Frac((PowFix(ToFix(x), n) + 5000000) \div 10000000, 10)

(***************************************************************************)
(* Values as they arrive from the form, the JSON columns and the REAL      *)
(* columns: a string is a sequence of characters, a number is read through *)
(* its decimal text (parseFloat applies ToString first), null and an       *)
(* absent property are the token Null, which holds no digit.               *)
(***************************************************************************)
Null == <<"null">>

Digits == <<"0", "1", "2", "3", "4", "5", "6", "7", "8", "9">>

IsDigit(c) == \E i \in 1..10 : Digits[i] = c

DigitVal(c) == (CHOOSE i \in 1..10 : Digits[i] = c) - 1

\* index of the first character of s at or after i that is not a blank
RECURSIVE SkipBlanks(_, _)
SkipBlanks(s, i) ==
  IF i <= Len(s) /\ s[i] = " " THEN SkipBlanks(s, i + 1) ELSE i

\* the run of digits of s from i on: its value, its length
RECURSIVE ScanDigits(_, _, _, _)
ScanDigits(s, i, acc, cnt) ==
  IF i <= Len(s) /\ IsDigit(s[i])
  THEN ScanDigits(s, i + 1, acc * 10 + DigitVal(s[i]), cnt + 1)
  ELSE [v |-> acc, c |-> cnt]

RECURSIVE Pow10(_)
Pow10(k) == IF k = 0 THEN 1 ELSE 10 * Pow10(k - 1)

\* parseFloat(s): the longest prefix [blanks] [sign] digits [. digits]
ParseFloat(s) ==
  LET number(sgn, ip, fp) ==
        IF ip.c = 0 /\ fp.c = 0 THEN NaN
        ELSE Frac(sgn * (ip.v * Pow10(fp.c) + fp.v), Pow10(fp.c))
      fraction(k) ==
        IF k <= Len(s) /\ s[k] = "."
        THEN ScanDigits(s, k + 1, 0, 0) ELSE [v |-> 0, c |-> 0]
      digits(sgn, j, ip) == number(sgn, ip, fraction(j + ip.c))
      unsigned(sgn, j) == digits(sgn, j, ScanDigits(s, j, 0, 0))
      signed(i) ==
        unsigned(IF i <= Len(s) /\ s[i] = "-" THEN -1 ELSE 1,
                 IF i <= Len(s) /\ s[i] \in {"-", "+"} THEN i + 1 ELSE i)
  IN  signed(SkipBlanks(s, 1))

\* parseFloat(v) || dflt
Num(v, dflt) == OrElse(ParseFloat(v), dflt)

RECURSIVE SumR(_)
\* the accumulation  total = 0; for (x of xs) total += x
SumR(xs) ==
  IF Len(xs) = 0 THEN Zero
  ELSE RAdd(SumR(SubSeq(xs, 1, Len(xs) - 1)), xs[Len(xs)])

(***************************************************************************)
(* The server engine: calculateBorrowerMetrics                             *)
(***************************************************************************)
\* variant: an hourly month counted as four weeks
employmentIncome_fourWeeks(emp) ==
  LET base == IF emp.pay_type = "salary"
              THEN RDiv(Num(emp.annual_salary, Zero), R(12))
              ELSE RMul(RMul(Num(emp.hourly_rate, Zero),
                             Num(emp.hours_per_week, Zero)),
                        R(4))
  IN  RAdd(RAdd(RAdd(base, Num(emp.overtime_monthly, Zero)),
                Num(emp.bonus_monthly, Zero)),
           Num(emp.commission_monthly, Zero))

\* the body of the employer loops
employmentIncome(emp) ==
  LET base == IF emp.pay_type = "salary"
              THEN RDiv(Num(emp.annual_salary, Zero), R(12))
              ELSE RMul(RMul(Num(emp.hourly_rate, Zero),
                             Num(emp.hours_per_week, Zero)),
                        Frac(4333, 1000))
  IN  RAdd(RAdd(RAdd(base, Num(emp.overtime_monthly, Zero)),
                Num(emp.bonus_monthly, Zero)),
           Num(emp.commission_monthly, Zero))

monthlyEmploymentIncome(employers) ==
  SumR([i \in 1..Len(employers) |-> employmentIncome(employers[i])])

\* variant: the co-borrower loop runs whatever has_coborrower is
coMonthlyEmploymentIncome_ungated(has_coborrower, coEmployers) ==
  SumR([i \in 1..Len(coEmployers) |-> employmentIncome(coEmployers[i])])

coMonthlyEmploymentIncome(has_coborrower, coEmployers) ==
  IF has_coborrower # 0
  THEN SumR([i \in 1..Len(coEmployers) |-> employmentIncome(coEmployers[i])])
  ELSE Zero

monthlyOtherIncome(otherIncome) ==
  SumR([i \in 1..Len(otherIncome) |-> Num(otherIncome[i].monthly_amount, Zero)])

coMonthlyOtherIncome(has_coborrower, coOtherIncome) ==
  IF has_coborrower # 0
  THEN SumR([i \in 1..Len(coOtherIncome) |->
               Num(coOtherIncome[i].monthly_amount, Zero)])
  ELSE Zero

totalMonthlyIncome(mei, cmei, moi, cmoi) ==
  RAdd(RAdd(RAdd(mei, cmei), moi), cmoi)

totalAssets(assets) ==
  SumR([i \in 1..Len(assets) |-> Num(assets[i].balance, Zero)])

\* variant: investment accounts are left out of the liquid assets as well
liquidAssets_noInvestments(assets) ==
  SumR([i \in 1..Len(assets) |->
          IF assets[i].type \notin {"401(k)/IRA", "Stocks/Investments"}
          THEN Num(assets[i].balance, Zero) ELSE Zero])

liquidAssets(assets) ==
  SumR([i \in 1..Len(assets) |->
          IF assets[i].type \notin {"401(k)/IRA"}
          THEN Num(assets[i].balance, Zero) ELSE Zero])

totalMonthlyDebts(debts) ==
  SumR([i \in 1..Len(debts) |-> Num(debts[i].monthly_payment, Zero)])

loanAmount(purchasePrice, downPaymentAmount) ==
  RSub(purchasePrice, downPaymentAmount)

ltv(loan, purchasePrice) ==
  IF RGt(purchasePrice, Zero)
  THEN RMul(RDiv(loan, purchasePrice), R(100)) ELSE Zero

purchasePrice(borrower) == Num(borrower.purchase_price, Zero)

downPaymentAmount(borrower) == Num(borrower.down_payment_amount, Zero)

\* variant: a missing rate is read as 0 like every other field
interestRate_zeroDefault(borrower) == Num(borrower.interest_rate, Zero)

interestRate(borrower) == Num(borrower.interest_rate, R(7))

numPayments == 360

principalAndInterest(loan, monthlyRate) ==
  IF RGt(loan, Zero) /\ RGt(monthlyRate, Zero)
  THEN LET pow == MathPow(RAdd(R(1), monthlyRate), numPayments)
       IN  RDiv(RMul(loan, RMul(monthlyRate, pow)), RSub(pow, R(1)))
  ELSE Zero

frontEndDTI(piti, income) ==
  IF RGt(income, Zero)
  THEN RMul(RDiv(piti, income), R(100)) ELSE Zero

\* variant: the monthly debts are left out of the back-end ratio
backEndDTI_withoutDebts(debts, piti, income) ==
  IF RGt(income, Zero)
  THEN RMul(RDiv(piti, income), R(100))
  ELSE Zero

backEndDTI(debts, piti, income) ==
  IF RGt(income, Zero)
  THEN RMul(RDiv(RAdd(debts, piti), income), R(100))
  ELSE Zero

\* variant: the ratio is taken without the income > 0 test
currentDTI_unguarded(debts, income) == RMul(RDiv(debts, income), R(100))

currentDTI(debts, income) ==
  IF RGt(income, Zero)
  THEN RMul(RDiv(debts, income), R(100)) ELSE Zero

\* the closure calculateMaxPurchase; env holds the variables it captures
calculateMaxPurchase(targetDTI, env) ==
  IF RLe(env.totalMonthlyIncome, Zero) THEN Zero
  ELSE
    LET maxTotalPayment ==
          RSub(RDiv(RMul(env.totalMonthlyIncome, R(targetDTI)), R(100)),
               env.totalMonthlyDebts)
        maxPITI == maxTotalPayment
        maxPI == RSub(RSub(RSub(maxPITI, env.monthlyTaxes),
                           env.monthlyInsurance), env.monthlyHOA)
    IN  IF RLe(maxPI, Zero) \/ RLe(env.monthlyRate, Zero) THEN Zero
        ELSE
          LET pow == MathPow(RAdd(R(1), env.monthlyRate), numPayments)
              maxLoan == RDiv(RMul(maxPI, RSub(pow, R(1))),
                              RMul(env.monthlyRate, pow))
              downPaymentPercent ==
                IF RGt(env.purchasePrice, Zero)
                THEN RDiv(env.downPaymentAmount, env.purchasePrice)
                ELSE Frac(3, 100)
          IN  RDiv(maxLoan, RSub(R(1), downPaymentPercent))

cashToClose(down, loan, monthlyTaxes, monthlyInsurance) ==
  LET closingCosts == RMul(loan, Frac(3, 100))
      prepaidItems == RMul(RAdd(monthlyTaxes, monthlyInsurance), R(6))
  IN  RAdd(RAdd(down, closingCosts), prepaidItems)

\* the locals calculateBorrowerMetrics reads from the row
rowLocals(borrower) ==
  [monthlyEmploymentIncome |-> monthlyEmploymentIncome(borrower.employers),
   coMonthlyEmploymentIncome |->
     coMonthlyEmploymentIncome(borrower.has_coborrower, borrower.co_employers),
   monthlyOtherIncome |-> monthlyOtherIncome(borrower.other_income),
   coMonthlyOtherIncome |->
     coMonthlyOtherIncome(borrower.has_coborrower, borrower.co_other_income),
   totalAssets |-> totalAssets(borrower.assets),
   liquidAssets |-> liquidAssets(borrower.assets),
   totalMonthlyDebts |-> totalMonthlyDebts(borrower.debts),
   purchasePrice |-> purchasePrice(borrower),
   downPaymentAmount |-> downPaymentAmount(borrower),
   monthlyRate |-> RDiv(RDiv(interestRate(borrower), R(100)), R(12)),
   monthlyTaxes |-> RDiv(Num(borrower.property_taxes_annual, Zero), R(12)),
   monthlyInsurance |-> RDiv(Num(borrower.insurance_annual, Zero), R(12)),
   monthlyHOA |-> Num(borrower.hoa_monthly, Zero)]

\* ... then totalMonthlyIncome and loanAmount
withTotals(v) ==
  v @@ [totalMonthlyIncome |->
          totalMonthlyIncome(v.monthlyEmploymentIncome,
                             v.coMonthlyEmploymentIncome,
                             v.monthlyOtherIncome, v.coMonthlyOtherIncome),
        loanAmount |-> loanAmount(v.purchasePrice, v.downPaymentAmount)]

\* ... then principalAndInterest
withPayment(v) ==
  v @@ [principalAndInterest |->
          principalAndInterest(v.loanAmount, v.monthlyRate)]

\* ... then totalPITI
withPITI(v) ==
  v @@ [totalPITI |-> RAdd(RAdd(RAdd(v.principalAndInterest, v.monthlyTaxes),
                                v.monthlyInsurance), v.monthlyHOA)]

\* the object returned, from the locals v
metricsOf(v) ==
  [monthlyEmploymentIncome   |-> v.monthlyEmploymentIncome,
   coMonthlyEmploymentIncome |-> v.coMonthlyEmploymentIncome,
   monthlyOtherIncome        |-> v.monthlyOtherIncome,
   coMonthlyOtherIncome      |-> v.coMonthlyOtherIncome,
   totalMonthlyIncome        |-> v.totalMonthlyIncome,
   annualIncome              |-> RMul(v.totalMonthlyIncome, R(12)),
   totalAssets               |-> v.totalAssets,
   liquidAssets              |-> v.liquidAssets,
   totalMonthlyDebts         |-> v.totalMonthlyDebts,
   currentDTI    |-> currentDTI(v.totalMonthlyDebts, v.totalMonthlyIncome),
   loanAmount                |-> v.loanAmount,
   ltv                       |-> ltv(v.loanAmount, v.purchasePrice),
   principalAndInterest      |-> v.principalAndInterest,
   monthlyTaxes              |-> v.monthlyTaxes,
   monthlyInsurance          |-> v.monthlyInsurance,
   monthlyHOA                |-> v.monthlyHOA,
   totalPITI                 |-> v.totalPITI,
   frontEndDTI   |-> frontEndDTI(v.totalPITI, v.totalMonthlyIncome),
   backEndDTI    |-> backEndDTI(v.totalMonthlyDebts, v.totalPITI,
                                v.totalMonthlyIncome),
   maxPurchase43 |-> calculateMaxPurchase(43, v),
   maxPurchase45 |-> calculateMaxPurchase(45, v),
   maxPurchase50 |-> calculateMaxPurchase(50, v),
   cashToClose   |-> cashToClose(v.downPaymentAmount, v.loanAmount,
                                 v.monthlyTaxes, v.monthlyInsurance)]

calculateBorrowerMetrics(borrower) ==
  metricsOf(withPITI(withPayment(withTotals(rowLocals(borrower)))))

(***************************************************************************)
(* The browser's live preview (app.js)                                     *)
(***************************************************************************)
\* the decimal digits of n >= 0, grouped in threes by commas
RECURSIVE GroupedDigits(_)
GroupedDigits(n) ==
  IF n < 1000
  THEN IF n < 10 THEN <<Digits[n + 1]>>
       ELSE IF n < 100 THEN <<Digits[(n \div 10) + 1], Digits[(n % 10) + 1]>>
       ELSE <<Digits[(n \div 100) + 1], Digits[((n \div 10) % 10) + 1],
              Digits[(n % 10) + 1]>>
  ELSE LET r == n % 1000
       IN  GroupedDigits(n \div 1000) \o
           <<",", Digits[(r \div 100) + 1], Digits[((r \div 10) % 10) + 1],
             Digits[(r % 10) + 1]>>

\* Number.prototype.toLocaleString of an integer, Infinity or NaN (the
\* infinity sign is the one token "inf")
toLocaleString(x) ==
  IF IsNaN(x) THEN <<"N", "a", "N">>
  ELSE IF ~IsFinite(x)
       THEN (IF x.n < 0 THEN <<"-">> ELSE <<>>) \o <<"inf">>
       ELSE (IF x.n < 0 THEN <<"-">> ELSE <<>>) \o GroupedDigits(Abs(x.n))

formatCurrency(amount) ==
  <<"$">> \o toLocaleString(IF IsFinite(amount) THEN MathRound(amount)
                            ELSE amount)

\* str.replace(/[$,]/g, '')
StripCurrency(str) == SelectSeq(str, LAMBDA c : c \notin {"$", ","})

parseCurrency(str) == OrElse(ParseFloat(StripCurrency(str)), Zero)

calculateEmployerIncome(emp) ==
  LET monthly == IF emp.pay_type = "salary"
                 THEN RDiv(Num(emp.annual_salary, Zero), R(12))
                 ELSE RMul(RMul(Num(emp.hourly_rate, Zero),
                                Num(emp.hours_per_week, Zero)),
                           Frac(4333, 1000))
  IN  RAdd(RAdd(RAdd(monthly, Num(emp.overtime_monthly, Zero)),
                Num(emp.bonus_monthly, Zero)),
           Num(emp.commission_monthly, Zero))

getMonthlyIncome(f) ==
  LET prim == SumR([i \in 1..Len(f.employers) |->
                      IF ~f.employers[i].is_previous
                      THEN calculateEmployerIncome(f.employers[i]) ELSE Zero])
      co   == SumR([i \in 1..Len(f.co_employers) |->
                      IF ~f.co_employers[i].is_previous
                      THEN calculateEmployerIncome(f.co_employers[i])
                      ELSE Zero])
      oth  == SumR([i \in 1..Len(f.other_income) |->
                      Num(f.other_income[i].monthly_amount, Zero)])
      coth == SumR([i \in 1..Len(f.co_other_income) |->
                      Num(f.co_other_income[i].monthly_amount, Zero)])
  IN  RAdd(RAdd(RAdd(prim, co), oth), coth)

getMonthlyDebts(f) ==
  SumR([i \in 1..Len(f.debts) |-> Num(f.debts[i].monthly_payment, Zero)])

\* the inputs updatePropertyCalculations reads and the loan it sizes
propertyLocals(f) ==
  [taxesAnnual |-> Num(f.property_taxes_annual, Zero),
   insuranceAnnual |-> Num(f.insurance_annual, Zero),
   hoaMonthly |-> Num(f.hoa_monthly, Zero),
   propertyValue |-> IF f.loan_purpose = "Refinance"
                     THEN Num(f.property_value, Zero)
                     ELSE Num(f.purchase_price, Zero),
   loanAmount |-> IF f.loan_purpose = "Refinance"
                  THEN RAdd(Num(f.current_loan_balance, Zero),
                            Num(f.cash_out_amount, Zero))
                  ELSE MathMax(Zero, RSub(Num(f.purchase_price, Zero),
                                          Num(f.down_payment_amount, Zero))),
   monthlyRate |-> RDiv(RDiv(Num(f.interest_rate, R(7)), R(100)), R(12))]

\* the payment formula of updatePropertyCalculations
previewPayment(loan, monthlyRate, pow) ==
  RDiv(RMul(loan, RMul(monthlyRate, pow)), RSub(pow, R(1)))

\* ... then pi
propertyPayment(v) ==
  v @@ [pi |-> IF RGt(v.loanAmount, Zero) /\ RGt(v.monthlyRate, Zero)
               THEN previewPayment(v.loanAmount, v.monthlyRate,
                                   MathPow(RAdd(R(1), v.monthlyRate), 360))
               ELSE Zero]

\* ... then totalPITI
propertyPITI(v) ==
  v @@ [totalPITI |-> RAdd(RAdd(RAdd(v.pi, RDiv(v.taxesAnnual, R(12))),
                                RDiv(v.insuranceAnnual, R(12))),
                           v.hoaMonthly)]

\* ... then the figures and the texts written to the page
propertyTexts(v) ==
  [loanAmount |-> v.loanAmount,
   ltv |-> IF RGt(v.propertyValue, Zero)
           THEN RMul(RDiv(v.loanAmount, v.propertyValue), R(100)) ELSE Zero,
   pi |-> v.pi,
   totalPITI |-> v.totalPITI,
   calcLoanAmount |-> formatCurrency(v.loanAmount),
   calcPITI |-> formatCurrency(v.totalPITI)]

updatePropertyCalculations(f) ==
  propertyTexts(propertyPITI(propertyPayment(propertyLocals(f))))

\* the price and payment of calculateMaxPurchase once maxPI is known
maxPurchaseFor(maxPI, pow, v) ==
  IF RLe(maxPI, Zero) \/ RLe(v.monthlyRate, Zero)
  THEN [price |-> Zero, piti |-> Zero]
  ELSE [price |-> RDiv(RDiv(RMul(maxPI, RSub(pow, R(1))),
                            RMul(v.monthlyRate, pow)),
                       RSub(R(1), Frac(3, 100))),
        piti  |-> RAdd(RAdd(RAdd(maxPI, v.monthlyTaxes), v.monthlyInsurance),
                       v.hoaMonthly)]

\* the inputs calculateMaxPurchase reads and its maxTotalPayment
maxPurchaseLocals(monthlyIncome, monthlyDebts, targetDTI, f) ==
  [monthlyRate |-> RDiv(RDiv(Num(f.interest_rate, R(7)), R(100)), R(12)),
   maxTotalPayment |->
     RSub(RDiv(RMul(monthlyIncome, R(targetDTI)), R(100)), monthlyDebts),
   monthlyTaxes |-> RDiv(Num(f.property_taxes_annual, Zero), R(12)),
   monthlyInsurance |-> RDiv(Num(f.insurance_annual, Zero), R(12)),
   hoaMonthly |-> Num(f.hoa_monthly, Zero)]

maxPurchaseOf(v) ==
  maxPurchaseFor(RSub(RSub(RSub(v.maxTotalPayment, v.monthlyTaxes),
                           v.monthlyInsurance), v.hoaMonthly),
                 MathPow(RAdd(R(1), v.monthlyRate), 360), v)

\* app.js calculateMaxPurchase(monthlyIncome, monthlyDebts, targetDTI)
previewMaxPurchase(monthlyIncome, monthlyDebts, targetDTI, f) ==
  IF RLe(monthlyIncome, Zero) THEN [price |-> Zero, piti |-> Zero]
  ELSE maxPurchaseOf(maxPurchaseLocals(monthlyIncome, monthlyDebts,
                                       targetDTI, f))

\* what updateAllCalculations reads: the incomes and debts of the form and
\* the two texts updatePropertyCalculations wrote
summaryLocals(f, prop) ==
  [prop |-> prop,
   monthlyIncome |-> getMonthlyIncome(f),
   monthlyDebts |-> getMonthlyDebts(f),
   piti |-> parseCurrency(prop.calcPITI),
   loanAmount |-> parseCurrency(prop.calcLoanAmount),
   downPayment |-> Num(f.down_payment_amount, Zero)]

\* the figures the summary shows
summaryOf(v, f) ==
  [totalMonthlyIncome |-> v.monthlyIncome,
   totalMonthlyDebts  |-> v.monthlyDebts,
   loanAmount   |-> v.prop.loanAmount,
   ltv          |-> v.prop.ltv,
   totalPITI    |-> v.prop.totalPITI,
   frontEndDTI  |-> IF RGt(v.monthlyIncome, Zero)
                    THEN RMul(RDiv(v.piti, v.monthlyIncome), R(100))
                    ELSE Zero,
   backEndDTI   |-> IF RGt(v.monthlyIncome, Zero)
                    THEN RMul(RDiv(RAdd(v.monthlyDebts, v.piti),
                                   v.monthlyIncome), R(100))
                    ELSE Zero,
   cashToClose  |-> RAdd(v.downPayment, RMul(v.loanAmount, Frac(3, 100))),
   maxPurchase43 |->
     previewMaxPurchase(v.monthlyIncome, v.monthlyDebts, 43, f).price,
   maxPurchase45 |->
     previewMaxPurchase(v.monthlyIncome, v.monthlyDebts, 45, f).price,
   maxPurchase50 |->
     previewMaxPurchase(v.monthlyIncome, v.monthlyDebts, 50, f).price]

\* updatePropertyCalculations() followed by updateAllCalculations(), as run
\* on every input event
updateAllCalculations(f) ==
  summaryOf(summaryLocals(f, updatePropertyCalculations(f)), f)

(***************************************************************************)
(* The interview: one borrowers row, the form that edits it, the           *)
(* calculations last returned by the server and the live preview           *)
(***************************************************************************)
VARIABLES
  form,          \* the inputs of the interview page
  borrower,      \* the borrowers row
  calculations,  \* calculateBorrowerMetrics(row) as last sent to the page
  preview,       \* the figures of the browser's own calculation
  saves,         \* POST /:id/save requests handled so far
  calls,         \* the calls of calculateBorrowerMetrics in progress
  borrowers,       \* the borrowers table, by id
  zapier_webhooks, \* the zapier_webhooks table, in rowid order
  handlers,        \* the route handlers in progress, by request
  borrowerData,    \* app.js: the changes not yet sent
  saveTimeout,     \* app.js: the auto-save timer
  network,         \* the save requests between the page and the server
  session,         \* the client's pathfinder_session cookie
  env,             \* process.env
  browser,         \* the shared headless browser (let browser)
  chromium,        \* the browser processes launched, with their pages
  log,             \* what has been entered, sent and answered so far
  now              \* the clock

engineVars == <<form, borrower, calculations, preview, saves, calls>>

serverVars == <<borrowers, zapier_webhooks, handlers>>

pageVars == <<borrowerData, saveTimeout, network>>

headlessVars == <<browser, chromium>>

authVars == <<session, env>>

otherVars == <<serverVars, pageVars, authVars, headlessVars, log, now>>

vars == <<engineVars, otherVars>>

\* the parts of the program a specification leaves alone are at rest
OtherInit ==
  /\ borrowers = <<>>
  /\ zapier_webhooks = <<>>
  /\ handlers = <<>>
  /\ borrowerData = <<>>
  /\ saveTimeout = Null
  /\ network = {}
  /\ session = Null
  /\ env = [ADMIN_PASSWORD |-> ""]
  /\ browser = Null
  /\ chromium = <<>>
  /\ log = <<>>
  /\ now = 0

\* the requests that may be in the engine at the same time
Requests == {"r1", "r2"}

\* the frame of a request that is not in calculateBorrowerMetrics
Idle ==
  [pc |-> "idle", borrower |-> <<>>, snapshot |-> <<>>, v |-> <<>>,
   result |-> <<>>]

NoCalls == [r \in Requests |-> Idle]

MaxSaves == 3

MaxList == 1

\* POST /:id/save allowedFields
allowedFields ==
  {"first_name", "last_name", "phone", "email",
   "street_address", "city", "state", "zip",
   "date_of_birth", "ssn", "marital_status", "dependents",
   "citizenship_status", "first_time_homebuyer",
   "has_coborrower", "co_first_name", "co_last_name", "co_phone", "co_email",
   "co_street_address", "co_city", "co_state", "co_zip",
   "co_date_of_birth", "co_ssn", "co_marital_status", "co_dependents",
   "co_citizenship_status",
   "employers", "other_income", "co_employers", "co_other_income",
   "assets", "debts",
   "purchase_price", "down_payment_amount", "down_payment_percent",
   "property_type", "occupancy", "property_state", "property_county",
   "property_taxes_annual", "hoa_monthly", "insurance_annual", "interest_rate",
   "credit_score", "co_credit_score", "late_payments_12", "late_payments_24",
   "bankruptcy", "foreclosure", "collections", "collections_amount",
   "status"}

\* the row written by INSERT INTO borrowers (status) VALUES ('draft'):
\* the column defaults of the schema
NewBorrower ==
  [employers |-> <<>>, other_income |-> <<>>,
   co_employers |-> <<>>, co_other_income |-> <<>>,
   assets |-> <<>>, debts |-> <<>>,
   has_coborrower |-> 0,
   loan_purpose |-> "Purchase",
   purchase_price |-> Null, down_payment_amount |-> Null,
   property_taxes_annual |-> Null, hoa_monthly |-> Null,
   insurance_annual |-> Null, interest_rate |-> <<"7">>,
   property_value |-> Null, current_loan_balance |-> Null,
   cash_out_amount |-> Null]

\* what the loan officer enters
Employer(payType, salary, hourly, hours, overtime, previous) ==
  [pay_type |-> payType, annual_salary |-> salary, hourly_rate |-> hourly,
   hours_per_week |-> hours, overtime_monthly |-> overtime,
   bonus_monthly |-> Null, commission_monthly |-> Null,
   is_previous |-> previous]

EmployerChoices ==
  {Employer("salary", <<"1", "2", "0", "0">>, Null, Null, Null, FALSE),
   Employer("salary", <<"2", "4", "0", "0">>, Null, Null, <<"1", "0">>, TRUE),
   [Employer("hourly", Null, <<"2">>, <<"5">>, <<"a", "b", "c">>, FALSE)
      EXCEPT !.bonus_monthly = <<"3">>, !.commission_monthly = <<"4">>]}

CoEmployerChoices ==
  {Employer("salary", <<"6", "0", "0">>, Null, Null, Null, FALSE),
   Employer("salary", <<"1", "2", "0", "0">>, Null, Null, Null, TRUE)}

OtherIncomeChoices ==
  {[type |-> "Rental", monthly_amount |-> <<"5", "0">>],
   [type |-> "Other", monthly_amount |-> <<"-", "2", "0">>]}

CoOtherIncomeChoices ==
  {[type |-> "Pension", monthly_amount |-> <<"3", "0">>]}

AssetChoices ==
  {[type |-> "401(k)/IRA", balance |-> <<"5", "0", "0">>],
   [type |-> "Savings", balance |-> <<"2", "0", "0">>],
   [type |-> "Checking", balance |-> <<"-", "3", "0", "0">>]}

DebtChoices ==
  {[type |-> "Auto Loan", monthly_payment |-> <<"4", "0">>],
   [type |-> "Credit Card", monthly_payment |-> <<"-", "1", "0">>]}

\* the lists of at most MaxList entries
RECURSIVE ListsOf(_, _)
ListsOf(S, k) ==
  IF k = 0 THEN {<<>>}
  ELSE LET shorter == ListsOf(S, k - 1)
       IN  shorter \cup {Append(l, x) : l \in {m \in shorter : Len(m) = k - 1},
                                        x \in S}

PropertyInputs ==
  [purchase_price |-> {Null, <<"1", "0", "0", "0">>},
   down_payment_amount |-> {Null, <<"5", "0", "0">>, <<"1", "0", "0", "0">>,
                            <<"2", "0", "0", "0">>},
   interest_rate |-> {<<"7">>, <<"6">>, <<"0">>, <<>>},
   property_taxes_annual |-> {Null, <<"1", "2", "0">>, <<"a", "b", "c">>},
   insurance_annual |-> {Null, <<"6", "0">>},
   hoa_monthly |-> {Null, <<"1", "0">>},
   property_value |-> {Null, <<"2", "0", "0", "0">>},
   current_loan_balance |-> {Null, <<"8", "0", "0">>},
   cash_out_amount |-> {Null, <<"1", "0", "0">>}]

\* variant: every field of the body is written, allowed or not
saveFields_anyField(row, data) ==
  [c \in DOMAIN row |-> IF c \in DOMAIN data THEN data[c] ELSE row[c]]

\* the UPDATE of POST /:id/save: the allowed fields present in the body
saveFields(row, data) ==
  [c \in DOMAIN row |->
     IF c \in allowedFields /\ c \in DOMAIN data THEN data[c] ELSE row[c]]

\* POST /:id/save with body data, after the form changed to f
Save(f, data) ==
  /\ saves < MaxSaves
  /\ f # form
  /\ form' = f
  /\ borrower' = saveFields(borrower, data)
  /\ calculations' = calculateBorrowerMetrics(borrower')
  /\ preview' = updateAllCalculations(f)
  /\ saves' = saves + 1
  /\ UNCHANGED calls
  /\ UNCHANGED otherVars

Init ==
  /\ borrower = NewBorrower
  /\ form = NewBorrower
  /\ calculations = calculateBorrowerMetrics(NewBorrower)
  /\ preview = updateAllCalculations(NewBorrower)
  /\ saves = 0
  /\ calls = NoCalls
  /\ OtherInit

\* updateEmployerData: an employer block is added, edited or removed
EditEmployers ==
  \E e \in ListsOf(EmployerChoices, MaxList),
     c \in ListsOf(CoEmployerChoices, MaxList) :
    /\ e = form.employers \/ c = form.co_employers
    /\ Save([form EXCEPT !.employers = e, !.co_employers = c],
            [employers |-> e, co_employers |-> c])

\* updateOtherIncomeData
EditOtherIncome ==
  \E o \in ListsOf(OtherIncomeChoices, MaxList),
     c \in ListsOf(CoOtherIncomeChoices, MaxList) :
    /\ o = form.other_income \/ c = form.co_other_income
    /\ Save([form EXCEPT !.other_income = o, !.co_other_income = c],
            [other_income |-> o, co_other_income |-> c])

\* updateAssetData
EditAssets ==
  \E a \in ListsOf(AssetChoices, MaxList) :
    Save([form EXCEPT !.assets = a], [assets |-> a])

\* updateDebtData
EditDebts ==
  \E d \in ListsOf(DebtChoices, MaxList) :
    Save([form EXCEPT !.debts = d], [debts |-> d])

\* a change event of an input carrying data-autosave on the property tab
EditProperty ==
  \E field \in DOMAIN PropertyInputs :
    \E value \in PropertyInputs[field] :
      Save([form EXCEPT ![field] = value], field :> value)

\* a click on a toggle button
ToggleButton ==
  \/ \E v \in {0, 1} :
       Save([form EXCEPT !.has_coborrower = v], [has_coborrower |-> v])
  \/ \E v \in {"Purchase", "Refinance"} :
       Save([form EXCEPT !.loan_purpose = v], [loan_purpose |-> v])

Next ==
  \/ EditEmployers
  \/ EditOtherIncome
  \/ EditAssets
  \/ EditDebts
  \/ EditProperty
  \/ ToggleButton

Spec == Init /\ [][Next]_vars

(***************************************************************************)
(* Properties of the qualification engine                                  *)
(***************************************************************************)
Tiers == {"maxPurchase43", "maxPurchase45", "maxPurchase50"}

\* the employers that are not marked as previous
CurrentEmployers(emps) == SelectSeq(emps, LAMBDA e : ~e.is_previous)

\* C1: an employer whose is_previous flag is set contributes 0 to
\* monthlyEmploymentIncome, coMonthlyEmploymentIncome and totalMonthlyIncome:
\* the three figures are those of the current employers alone.
C1_PreviousEmployerExcluded ==
  LET mei  == monthlyEmploymentIncome(CurrentEmployers(borrower.employers))
      cmei == coMonthlyEmploymentIncome(borrower.has_coborrower,
                CurrentEmployers(borrower.co_employers))
  IN  /\ calculations.monthlyEmploymentIncome = mei
      /\ calculations.coMonthlyEmploymentIncome = cmei
      /\ calculations.totalMonthlyIncome =
           totalMonthlyIncome(mei, cmei, calculations.monthlyOtherIncome,
                              calculations.coMonthlyOtherIncome)

\* C2: loanAmount is never negative; for a Purchase it is
\* max(0, purchasePrice - downPaymentAmount), and ltv is
\* loanAmount / purchasePrice * 100 when purchasePrice > 0, else 0.
C2_LoanAmountClamped ==
  LET price == purchasePrice(borrower)
      down  == downPaymentAmount(borrower)
      loan  == MathMax(Zero, RSub(price, down))
  IN  /\ RLe(Zero, calculations.loanAmount)
      /\ borrower.loan_purpose = "Purchase" =>
           /\ calculations.loanAmount = loan
           /\ calculations.ltv = IF RGt(price, Zero)
                                 THEN RMul(RDiv(loan, price), R(100))
                                 ELSE Zero

\* C3: when the loan purpose of the interview is Refinance the engine sizes
\* the loan as currentLoanBalance + cashOutAmount and takes ltv against
\* propertyValue (0 when propertyValue is not > 0); when it is Purchase the
\* loan is sized from purchasePrice and downPaymentAmount.
C3_RefinanceLoanSizing ==
  LET value   == Num(form.property_value, Zero)
      balance == Num(form.current_loan_balance, Zero)
      cashOut == Num(form.cash_out_amount, Zero)
  IN  /\ form.loan_purpose = "Refinance" =>
           /\ calculations.loanAmount = RAdd(balance, cashOut)
           /\ calculations.ltv =
                IF RGt(value, Zero)
                THEN RMul(RDiv(RAdd(balance, cashOut), value), R(100))
                ELSE Zero
      /\ form.loan_purpose = "Purchase" =>
           calculations.loanAmount =
             RSub(Num(form.purchase_price, Zero),
                  Num(form.down_payment_amount, Zero))

\* C4: no metric is infinite, NaN or the negative quotient of a division by a
\* non-positive denominator; the three max-purchase tiers are 0 when
\* downPaymentAmount >= purchasePrice > 0, where 1 - down/price <= 0.
C4_NonPositiveDenominatorYieldsZero ==
  LET price == purchasePrice(borrower)
      down  == downPaymentAmount(borrower)
  IN  /\ \A m \in DOMAIN calculations : IsFinite(calculations[m])
      /\ \A t \in Tiers : RLe(Zero, calculations[t])
      /\ (RGt(price, Zero) /\ RLe(price, down)) =>
           \A t \in Tiers : calculations[t] = Zero

\* C5: maxPurchase43 <= maxPurchase45 <= maxPurchase50 for every snapshot.
C5_MaxPurchaseMonotone ==
  /\ RLe(calculations.maxPurchase43, calculations.maxPurchase45)
  /\ RLe(calculations.maxPurchase45, calculations.maxPurchase50)

\* the co-borrower's income as the engine adds it up, whatever the flag
CoIncomeSum(b) ==
  RAdd(SumR([i \in 1..Len(b.co_employers) |->
               employmentIncome(b.co_employers[i])]),
       SumR([i \in 1..Len(b.co_other_income) |->
               Num(b.co_other_income[i].monthly_amount, Zero)]))

Unparseable(v) == IsNaN(ParseFloat(v))

\* the value 0 written where a numeric field cannot be parsed
ZeroIfUnparseable(v) == IF Unparseable(v) THEN <<"0">> ELSE v

ZeroFilledEmployers(emps) ==
  [i \in 1..Len(emps) |->
     [emps[i] EXCEPT !.annual_salary = ZeroIfUnparseable(@),
                     !.hourly_rate = ZeroIfUnparseable(@),
                     !.hours_per_week = ZeroIfUnparseable(@),
                     !.overtime_monthly = ZeroIfUnparseable(@),
                     !.bonus_monthly = ZeroIfUnparseable(@),
                     !.commission_monthly = ZeroIfUnparseable(@)]]

ZeroFilledAmounts(list, field) ==
  [i \in 1..Len(list) |-> [list[i] EXCEPT ![field] = ZeroIfUnparseable(@)]]

\* the snapshot with 0 in every numeric field that is absent, null or
\* unparseable, the interest rate left as it is
ZeroFilled(b) ==
  [b EXCEPT !.employers = ZeroFilledEmployers(@),
            !.co_employers = ZeroFilledEmployers(@),
            !.other_income = ZeroFilledAmounts(@, "monthly_amount"),
            !.co_other_income = ZeroFilledAmounts(@, "monthly_amount"),
            !.assets = ZeroFilledAmounts(@, "balance"),
            !.debts = ZeroFilledAmounts(@, "monthly_payment"),
            !.purchase_price = ZeroIfUnparseable(@),
            !.down_payment_amount = ZeroIfUnparseable(@),
            !.property_taxes_annual = ZeroIfUnparseable(@),
            !.insurance_annual = ZeroIfUnparseable(@),
            !.hoa_monthly = ZeroIfUnparseable(@)]

RateMissingOrZero(b) ==
  Unparseable(b.interest_rate) \/ ParseFloat(b.interest_rate) = Zero

\* C7 as stated: every absent, null or unparseable numeric field behaves as
\* the value 0, and an absent or zero interest rate gives monthlyRate = 0, so
\* principalAndInterest and the three max-purchase tiers are 0.
C7_MissingRateIsZeroRate ==
  /\ calculations = calculateBorrowerMetrics(ZeroFilled(borrower))
  /\ RateMissingOrZero(borrower) =>
       /\ calculations.principalAndInterest = Zero
       /\ \A t \in Tiers : calculations[t] = Zero

\* C7 as amended: every absent, null or unparseable numeric field behaves as
\* the value 0, except the interest rate: an absent, null, unparseable or
\* zero interest_rate behaves exactly as the rate 7.0.
C7_MissingRateIsSevenPercent ==
  calculations =
    calculateBorrowerMetrics(
      [ZeroFilled(borrower) EXCEPT !.interest_rate =
         IF RateMissingOrZero(borrower) THEN <<"7">> ELSE @])

\* C7 witness: the rate is missing or zero, another numeric field holds text
\* that is no number, and the payment computed is positive.
C7_Witness ==
  /\ RateMissingOrZero(borrower)
  /\ borrower.property_taxes_annual = <<"a", "b", "c">>
  /\ RGt(calculations.principalAndInterest, Zero)

\* C8: whatever is entered, also negative balances, payments, incomes, prices
\* or down payments, totalAssets, liquidAssets, totalMonthlyDebts,
\* totalMonthlyIncome, totalPITI and cashToClose are >= 0.
C8_AmountsNonNegative ==
  \A m \in {"totalAssets", "liquidAssets", "totalMonthlyDebts",
            "totalMonthlyIncome", "totalPITI", "cashToClose"} :
    RLe(Zero, calculations[m])

\* C9: for the same form state the live preview of the browser and the
\* server engine give equal totalMonthlyIncome, loanAmount, ltv, totalPITI,
\* frontEndDTI, backEndDTI, maxPurchase43/45/50 and cashToClose.
C9_PreviewEqualsServer ==
  \A m \in {"totalMonthlyIncome", "loanAmount", "ltv", "totalPITI",
            "frontEndDTI", "backEndDTI", "maxPurchase43", "maxPurchase45",
            "maxPurchase50", "cashToClose"} :
    preview[m] = calculations[m]

NoIncomeEntered(b) ==
  /\ b.employers = <<>>
  /\ b.co_employers = <<>>
  /\ b.other_income = <<>>
  /\ b.co_other_income = <<>>

\* C10: when all four income lists are empty, whatever the debts, assets and
\* property terms, totalMonthlyIncome, currentDTI, frontEndDTI, backEndDTI
\* and the three max-purchase tiers are 0 and every metric is a number.
C10_ZeroIncomeSafety ==
  NoIncomeEntered(borrower) =>
    /\ \A m \in {"totalMonthlyIncome", "currentDTI", "frontEndDTI",
                 "backEndDTI"} \cup Tiers : calculations[m] = Zero
    /\ \A m \in DOMAIN calculations : IsFinite(calculations[m])

\* C10 witness: no income, a debt with a payment, and a purchase with a
\* positive loan and payment.
C10_Witness ==
  /\ NoIncomeEntered(borrower)
  /\ calculations.totalMonthlyDebts # Zero
  /\ RGt(calculations.totalPITI, Zero)
  /\ saves > 0

(***************************************************************************)
(* The max-purchase projection, cash to close and the income rules         *)
(***************************************************************************)
TierDTI == [maxPurchase43 |-> 43, maxPurchase45 |-> 45, maxPurchase50 |-> 50]

\* the locals of the engine for the row b
EngineLocals(b) == withPITI(withPayment(withTotals(rowLocals(b))))

\* the same quantities as the browser reads them from the form f
BrowserLocals(f) ==
  [totalMonthlyIncome |-> getMonthlyIncome(f),
   totalMonthlyDebts |-> getMonthlyDebts(f),
   monthlyTaxes |-> RDiv(Num(f.property_taxes_annual, Zero), R(12)),
   monthlyInsurance |-> RDiv(Num(f.insurance_annual, Zero), R(12)),
   monthlyHOA |-> Num(f.hoa_monthly, Zero),
   monthlyRate |-> RDiv(RDiv(Num(f.interest_rate, R(7)), R(100)), R(12)),
   purchasePrice |-> Num(f.purchase_price, Zero),
   downPaymentAmount |-> Num(f.down_payment_amount, Zero)]

\* maxPI = income * targetDTI / 100 - debts - taxes - insurance - HOA
TierMaxPI(targetDTI, v) ==
  RSub(RSub(RSub(RSub(RDiv(RMul(v.totalMonthlyIncome, R(targetDTI)), R(100)),
                      v.totalMonthlyDebts),
                 v.monthlyTaxes), v.monthlyInsurance), v.monthlyHOA)

\* maxLoan = maxPI * [(1+r)^360 - 1] / [r * (1+r)^360]
TierMaxLoan(maxPI, r) ==
  RDiv(RMul(maxPI, RSub(MathPow(RAdd(R(1), r), 360), R(1))),
       RMul(r, MathPow(RAdd(R(1), r), 360)))

\* the assumed down-payment fraction of the projection
AssumedFraction(v) ==
  IF RGt(v.purchasePrice, Zero)
  THEN RDiv(v.downPaymentAmount, v.purchasePrice) ELSE Frac(3, 100)

\* the tier is priced: there is income, maxPI > 0 and monthlyRate > 0
TierPriced(targetDTI, v) ==
  /\ RGt(v.totalMonthlyIncome, Zero)
  /\ RGt(TierMaxPI(targetDTI, v), Zero)
  /\ RGt(v.monthlyRate, Zero)

\* maxPrice = maxLoan / (1 - fraction) for a priced tier, else 0
ProjectedMaxPrice(targetDTI, v) ==
  IF TierPriced(targetDTI, v)
  THEN RDiv(TierMaxLoan(TierMaxPI(targetDTI, v), v.monthlyRate),
            RSub(R(1), AssumedFraction(v)))
  ELSE Zero

\* C11: in the server's calculateMaxPurchase and in the browser's, the
\* assumed down-payment fraction is downPaymentAmount / purchasePrice when
\* purchasePrice > 0 and 0.03 otherwise, and maxPrice = maxLoan / (1 -
\* fraction).
C11_AssumedDownPaymentFraction ==
  \A t \in Tiers :
    /\ calculations[t] = ProjectedMaxPrice(TierDTI[t], EngineLocals(borrower))
    /\ preview[t] = ProjectedMaxPrice(TierDTI[t], BrowserLocals(form))

\* the server half of C11 alone
C11_ServerFraction ==
  \A t \in Tiers :
    calculations[t] = ProjectedMaxPrice(TierDTI[t], EngineLocals(borrower))

\* downPaymentAmount + loanAmount * 0.03 + (monthlyTaxes + monthlyInsurance) * 6
CashToCloseRule(down, loan, monthlyTaxes, monthlyInsurance) ==
  RAdd(RAdd(down, RMul(loan, Frac(3, 100))),
       RMul(RAdd(monthlyTaxes, monthlyInsurance), R(6)))

\* C12: cashToClose = downPaymentAmount + loanAmount * 0.03 +
\* (monthlyTaxes + monthlyInsurance) * 6, in the server engine and in the
\* browser summary, each with the loan amount it shows.
C12_CashToCloseFormula ==
  /\ calculations.cashToClose =
       CashToCloseRule(downPaymentAmount(borrower), calculations.loanAmount,
                       calculations.monthlyTaxes,
                       calculations.monthlyInsurance)
  /\ preview.cashToClose =
       CashToCloseRule(BrowserLocals(form).downPaymentAmount,
                       preview.loanAmount,
                       BrowserLocals(form).monthlyTaxes,
                       BrowserLocals(form).monthlyInsurance)

\* the server half of C12 alone
C12_ServerCashToClose ==
  calculations.cashToClose =
    CashToCloseRule(downPaymentAmount(borrower), calculations.loanAmount,
                    calculations.monthlyTaxes, calculations.monthlyInsurance)

\* the PITI paired with a tier: maxPI + taxes + insurance + HOA when the
\* tier is priced, else 0
PairedPITI(targetDTI, v) ==
  IF TierPriced(targetDTI, v)
  THEN RAdd(RAdd(RAdd(TierMaxPI(targetDTI, v), v.monthlyTaxes),
                 v.monthlyInsurance), v.monthlyHOA)
  ELSE Zero

\* C13: for each tier, with maxPI = income * targetDTI / 100 - debts - taxes
\* - insurance - HOA, the price is 0 when maxPI <= 0 or monthlyRate <= 0,
\* and the response of the engine carries, beside the three prices, the
\* PITI paired with the tier (0 when the price is 0).
C13_TierPriceWithPairedPITI ==
  \A t \in Tiers :
    /\ ~TierPriced(TierDTI[t], EngineLocals(borrower)) =>
         calculations[t] = Zero
    /\ \E k \in DOMAIN calculations \ Tiers :
         calculations[k] = PairedPITI(TierDTI[t], EngineLocals(borrower))

\* the price half of C13 alone
C13_UnpricedTierIsZero ==
  \A t \in Tiers :
    ~TierPriced(TierDTI[t], EngineLocals(borrower)) => calculations[t] = Zero

\* the browser's calculateMaxPurchase does return the pair
C13_BrowserPairsPITI ==
  \A t \in Tiers :
    previewMaxPurchase(getMonthlyIncome(form), getMonthlyDebts(form),
                       TierDTI[t], form).piti =
      PairedPITI(TierDTI[t], BrowserLocals(form))


\* the monthly income rule for one employer
EmployerRule(emp) ==
  LET base == IF emp.pay_type = "salary"
              THEN RDiv(OrElse(ParseFloat(emp.annual_salary), Zero), R(12))
              ELSE IF emp.pay_type = "hourly"
                   THEN RMul(RMul(OrElse(ParseFloat(emp.hourly_rate), Zero),
                                  OrElse(ParseFloat(emp.hours_per_week), Zero)),
                             Frac(4333, 1000))
                   ELSE Zero
      extras == RAdd(RAdd(OrElse(ParseFloat(emp.overtime_monthly), Zero),
                          OrElse(ParseFloat(emp.bonus_monthly), Zero)),
                     OrElse(ParseFloat(emp.commission_monthly), Zero))
  IN  RAdd(base, extras)

AllCurrent(emps) == \A i \in 1..Len(emps) : ~emps[i].is_previous

RuleSum(emps) == SumR([i \in 1..Len(emps) |-> EmployerRule(emps[i])])

\* C14: each current employer counts salary / 12 or rate * hours * 4.333,
\* plus overtime, bonus and commission whatever the pay type, in the engine
\* and in the browser; totalMonthlyIncome is the sum of the four income
\* figures and annualIncome is twelve times it
C14_IncomeRules ==
  /\ AllCurrent(borrower.employers)
       => calculations.monthlyEmploymentIncome = RuleSum(borrower.employers)
  /\ (borrower.has_coborrower # 0 /\ AllCurrent(borrower.co_employers))
       => calculations.coMonthlyEmploymentIncome
            = RuleSum(borrower.co_employers)
  /\ \A i \in 1..Len(form.employers) :
       ~form.employers[i].is_previous
         => calculateEmployerIncome(form.employers[i])
              = EmployerRule(form.employers[i])
  /\ \A i \in 1..Len(form.co_employers) :
       ~form.co_employers[i].is_previous
         => calculateEmployerIncome(form.co_employers[i])
              = EmployerRule(form.co_employers[i])
  /\ calculations.totalMonthlyIncome
       = RAdd(RAdd(RAdd(calculations.monthlyEmploymentIncome,
                        calculations.coMonthlyEmploymentIncome),
                   calculations.monthlyOtherIncome),
              calculations.coMonthlyOtherIncome)
  /\ calculations.annualIncome = RMul(calculations.totalMonthlyIncome, R(12))

\* an hourly employer with a bonus and a commission and a rental income
\* have been saved: 2 * 5 * 4.333 + 3 + 4 = 50.33, and 50 of rent
C14_Witness ==
  /\ Len(borrower.employers) = 1
  /\ borrower.employers[1].pay_type = "hourly"
  /\ ~borrower.employers[1].is_previous
  /\ calculations.monthlyEmploymentIncome = Frac(5033, 100)
  /\ calculations.monthlyOtherIncome = R(50)
  /\ calculations.totalMonthlyIncome = Frac(10033, 100)
  /\ calculations.annualIncome = Frac(30099, 25)
  /\ preview.totalMonthlyIncome = Frac(10033, 100)


(***************************************************************************)
(* The employer block of the income tab: the salary is entered as an       *)
(* amount and a frequency, and collectEmployerData derives annual_salary   *)
(***************************************************************************)
MaxEdits == 5

\* the decimal digits of n >= 0
RECURSIVE DecimalDigits(_)
DecimalDigits(n) ==
  IF n < 10 THEN <<Digits[n + 1]>>
  ELSE Append(DecimalDigits(n \div 10), Digits[(n % 10) + 1])

\* ToString of a whole number, as parseFloat applies it to a numeric
\* annual_salary
NumberToString(x) ==
  (IF x.n < 0 THEN <<"-">> ELSE <<>>) \o DecimalDigits(Abs(x.n))

\* the inputs of a block as createEmployerBlockHTML(index, prefix, {})
\* renders it: Salary active, no amount, frequency Annual
NewEmployerBlock ==
  [pay_type |-> "salary", salary_amount |-> <<>>,
   salary_frequency |-> "annual", hourly_rate |-> <<>>,
   hours_per_week |-> <<>>, overtime_monthly |-> <<>>,
   bonus_monthly |-> <<>>, commission_monthly |-> <<>>,
   is_previous |-> FALSE]

\* variant: the amount is saved as entered, whatever the frequency
annualSalary_asEntered(amount, frequency) == amount

\* the amount a salary block is normalised to
annualSalary(amount, frequency) ==
  IF frequency = "annual" THEN amount
  ELSE IF frequency = "monthly" THEN RMul(amount, R(12))
  ELSE RMul(amount, R(52))

\* the emp object collectEmployerData builds from one block; annual_salary
\* is set only for the Salary pay type with a non-empty amount
collectEmployer(block) ==
  [pay_type |-> block.pay_type,
   salary_amount |-> block.salary_amount,
   salary_frequency |-> block.salary_frequency,
   annual_salary |->
     IF block.pay_type = "salary" /\ block.salary_amount # <<>>
     THEN NumberToString(annualSalary(Num(block.salary_amount, Zero),
                                      block.salary_frequency))
     ELSE Null,
   hourly_rate |-> block.hourly_rate,
   hours_per_week |-> block.hours_per_week,
   overtime_monthly |-> block.overtime_monthly,
   bonus_monthly |-> block.bonus_monthly,
   commission_monthly |-> block.commission_monthly,
   is_previous |-> block.is_previous]

collectEmployerData(blocks) ==
  [i \in 1..Len(blocks) |-> collectEmployer(blocks[i])]

\* the monthly figure of a salary block
salaryMonthly(amount, frequency) ==
  IF frequency = "annual" THEN RDiv(amount, R(12))
  ELSE IF frequency = "monthly" THEN amount
  ELSE RDiv(RMul(amount, R(52)), R(12))

\* the text of the "Monthly (calculated)" field of one block
employerMonthlyCalc(block) ==
  IF block.pay_type = "salary"
  THEN formatCurrency(salaryMonthly(Num(block.salary_amount, Zero),
                                    block.salary_frequency))
  ELSE formatCurrency(RMul(RMul(Num(block.hourly_rate, Zero),
                                Num(block.hours_per_week, Zero)),
                           Frac(4333, 1000)))

updateEmployerMonthlyCalcs(blocks) ==
  [i \in 1..Len(blocks) |-> employerMonthlyCalc(blocks[i])]

\* what the loan officer types into a block
SalaryAmounts == {<<>>, <<"6", "0">>, <<"1", "2">>, <<"2", "5">>}

SalaryFrequencies == {"annual", "monthly", "weekly"}

HourlyRates == {<<>>, <<"2">>}

HoursPerWeek == {<<>>, <<"5">>}

OvertimeAmounts == {<<>>, <<"1", "0">>}

\* the page with the inputs f, its employer blocks collected
collected(f) ==
  [f EXCEPT !.employers = collectEmployerData(f.employers),
            !.co_employers = collectEmployerData(f.co_employers)]

\* updateEmployerData() once the primary blocks are blocks: the auto-save
\* of both employer lists, then updateIncomeCalculations()
updateEmployerData(blocks) ==
  /\ saves < MaxEdits
  /\ blocks # form.employers
  /\ form' = [form EXCEPT !.employers = blocks]
  /\ borrower' = saveFields(borrower, [k \in {"employers", "co_employers"} |->
                                         collected(form')[k]])
  /\ calculations' = calculateBorrowerMetrics(borrower')
  /\ preview' = updateAllCalculations(collected(form')) @@
                [emp_monthly_calc |-> updateEmployerMonthlyCalcs(blocks)]
  /\ saves' = saves + 1
  /\ UNCHANGED calls
  /\ UNCHANGED otherVars

EmployerInit ==
  /\ borrower = NewBorrower
  /\ form = NewBorrower
  /\ calculations = calculateBorrowerMetrics(NewBorrower)
  /\ preview = updateAllCalculations(NewBorrower) @@
               [emp_monthly_calc |-> <<>>]
  /\ saves = 0
  /\ calls = NoCalls
  /\ OtherInit

\* addEmployer('primary')
AddEmployer ==
  /\ Len(form.employers) < MaxList
  /\ updateEmployerData(Append(form.employers, NewEmployerBlock))

\* removeEmployer('primary', index)
RemoveEmployer ==
  \E i \in 1..Len(form.employers) :
    updateEmployerData(SubSeq(form.employers, 1, i - 1) \o
                       SubSeq(form.employers, i + 1, Len(form.employers)))

\* an input or change event of the salary amount
EditSalaryAmount ==
  \E i \in 1..Len(form.employers), a \in SalaryAmounts :
    updateEmployerData([form.employers EXCEPT ![i].salary_amount = a])

\* a change event of the frequency select
EditSalaryFrequency ==
  \E i \in 1..Len(form.employers), q \in SalaryFrequencies :
    updateEmployerData([form.employers EXCEPT ![i].salary_frequency = q])

\* a click on the Salary or the Hourly button
ClickPayType ==
  \E i \in 1..Len(form.employers), t \in {"salary", "hourly"} :
    updateEmployerData([form.employers EXCEPT ![i].pay_type = t])

\* an input or change event of the hourly rate or the hours per week
EditHourly ==
  \E i \in 1..Len(form.employers), r \in HourlyRates, h \in HoursPerWeek :
    /\ r = form.employers[i].hourly_rate \/ h = form.employers[i].hours_per_week
    /\ updateEmployerData([form.employers EXCEPT ![i].hourly_rate = r,
                                                 ![i].hours_per_week = h])

\* an input or change event of the monthly overtime
EditOvertime ==
  \E i \in 1..Len(form.employers), o \in OvertimeAmounts :
    updateEmployerData([form.employers EXCEPT ![i].overtime_monthly = o])

EmployerNext ==
  \/ AddEmployer
  \/ RemoveEmployer
  \/ EditSalaryAmount
  \/ EditSalaryFrequency
  \/ ClickPayType
  \/ EditHourly
  \/ EditOvertime

EmployerSpec == EmployerInit /\ [][EmployerNext]_vars


\* the monthly figure of a salary entered as amount and frequency
SalaryRule(amount, frequency) ==
  CASE frequency = "annual"  -> RDiv(amount, R(12))
    [] frequency = "monthly" -> amount
    [] frequency = "weekly"  -> RDiv(RMul(amount, R(52)), R(12))

\* the annual salary an amount and a frequency stand for
AnnualOf(amount, frequency) ==
  CASE frequency = "annual"  -> amount
    [] frequency = "monthly" -> RMul(amount, R(12))
    [] frequency = "weekly"  -> RMul(amount, R(52))

EnteredAmount(block) == OrElse(ParseFloat(block.salary_amount), Zero)

BlockExtras(block) ==
  RAdd(RAdd(OrElse(ParseFloat(block.overtime_monthly), Zero),
            OrElse(ParseFloat(block.bonus_monthly), Zero)),
       OrElse(ParseFloat(block.commission_monthly), Zero))

\* C15: for a block on the Salary pay type the engine and the browser count
\* amount / 12, amount or amount * 52 / 12 by frequency (plus the extras),
\* the block shows that figure as its "Monthly (calculated)" amount, and the
\* annual_salary saved is the one the current amount and frequency stand for
C15_SalaryAmountAndFrequency ==
  /\ Len(borrower.employers) = Len(form.employers)
  /\ \A i \in 1..Len(form.employers) :
       LET block   == form.employers[i]
           monthly == SalaryRule(EnteredAmount(block), block.salary_frequency)
       IN  block.pay_type = "salary" =>
             /\ employmentIncome(borrower.employers[i])
                  = RAdd(monthly, BlockExtras(block))
             /\ calculateEmployerIncome(collected(form).employers[i])
                  = RAdd(monthly, BlockExtras(block))
             /\ preview.emp_monthly_calc[i] = formatCurrency(monthly)
             /\ OrElse(ParseFloat(borrower.employers[i].annual_salary), Zero)
                  = AnnualOf(EnteredAmount(block), block.salary_frequency)
  /\ (\A i \in 1..Len(form.employers) : form.employers[i].pay_type = "salary")
       => /\ calculations.totalMonthlyIncome
               = SumR([i \in 1..Len(form.employers) |->
                         RAdd(SalaryRule(EnteredAmount(form.employers[i]),
                                         form.employers[i].salary_frequency),
                              BlockExtras(form.employers[i]))])
          /\ preview.totalMonthlyIncome = calculations.totalMonthlyIncome

\* a block back on Salary after a visit to Hourly, 25 a week: 25 * 52 / 12
\* is counted and shown as $108
C15_Witness ==
  /\ Len(form.employers) = 1
  /\ form.employers[1].pay_type = "salary"
  /\ form.employers[1].salary_amount = <<"2", "5">>
  /\ form.employers[1].salary_frequency = "weekly"
  /\ form.employers[1].hourly_rate = <<"2">>
  /\ borrower.employers[1].annual_salary = <<"1", "3", "0", "0">>
  /\ calculations.monthlyEmploymentIncome = Frac(325, 3)
  /\ preview.emp_monthly_calc[1] = <<"$", "1", "0", "8">>


\* the three ratios of debts d and housing payment p to income, in percent
DTIRule(d, p, income) ==
  [currentDTI  |-> RMul(RDiv(d, income), R(100)),
   frontEndDTI |-> RMul(RDiv(p, income), R(100)),
   backEndDTI  |-> RMul(RDiv(RAdd(d, p), income), R(100))]

\* principalAndInterest + taxes / 12 + insurance / 12 + HOA of the inputs b
PITIRule(pAndI, b) ==
  RAdd(RAdd(RAdd(pAndI,
                 RDiv(OrElse(ParseFloat(b.property_taxes_annual), Zero),
                      R(12))),
            RDiv(OrElse(ParseFloat(b.insurance_annual), Zero), R(12))),
       OrElse(ParseFloat(b.hoa_monthly), Zero))

\* the engine's half: totalPITI is the sum of its four parts and, with a
\* positive income, the three ratios follow the rule and add up
C16_ServerIdentities ==
  /\ calculations.totalPITI
       = PITIRule(calculations.principalAndInterest, borrower)
  /\ RGt(calculations.totalMonthlyIncome, Zero)
       => LET rule == DTIRule(calculations.totalMonthlyDebts,
                              calculations.totalPITI,
                              calculations.totalMonthlyIncome)
          IN  /\ calculations.currentDTI = rule.currentDTI
              /\ calculations.frontEndDTI = rule.frontEndDTI
              /\ calculations.backEndDTI = rule.backEndDTI
              /\ calculations.backEndDTI
                   = RAdd(calculations.currentDTI, calculations.frontEndDTI)

\* C16: totalPITI = principalAndInterest + taxes / 12 + insurance / 12 + HOA
\* and, with a positive income, currentDTI, frontEndDTI and backEndDTI are
\* debts, PITI and debts + PITI over income times 100, so that backEndDTI =
\* currentDTI + frontEndDTI; in the engine and in the browser's summary
C16_PITIAndDTIIdentities ==
  /\ C16_ServerIdentities
  /\ preview.totalPITI = PITIRule(updatePropertyCalculations(form).pi, form)
  /\ RGt(preview.totalMonthlyIncome, Zero)
       => LET rule == DTIRule(preview.totalMonthlyDebts, preview.totalPITI,
                              preview.totalMonthlyIncome)
          IN  /\ preview.frontEndDTI = rule.frontEndDTI
              /\ preview.backEndDTI = rule.backEndDTI
              /\ preview.backEndDTI
                   = RAdd(rule.currentDTI, preview.frontEndDTI)


(***************************************************************************)
(* The assets table of the assets tab                                      *)
(***************************************************************************)
MaxAssets == 2

\* the row addAsset() appends: the first option selected, no balance
NewAssetRow == [type |-> "Checking", balance |-> <<>>]

\* options of the type select, and what is typed as a balance
AssetTypes == {"Checking", "Savings", "401(k)/IRA", "Stocks/Investments"}

AssetBalances ==
  {<<>>, <<"5", "0", "0", "0", "0">>, <<"2", "0", "0", "0", "0">>,
   <<"-", "3", "0", "0">>}

\* the assets array updateAssetData builds from the rows: each balance is
\* parsed to a number
collectAssets(rows) ==
  [i \in 1..Len(rows) |->
     [type |-> rows[i].type,
      balance |-> NumberToString(Num(rows[i].balance, Zero))]]

\* the non-retirement balances updateAssetCalculations adds up
liquidOf(assets) ==
  SumR([i \in 1..Len(assets) |->
          IF assets[i].type # "401(k)/IRA"
          THEN Num(assets[i].balance, Zero) ELSE Zero])

totalOf(assets) ==
  SumR([i \in 1..Len(assets) |-> Num(assets[i].balance, Zero)])

updateAssetCalculations(assets) ==
  [total |-> totalOf(assets),
   liquid |-> liquidOf(assets),
   calcTotalAssets |-> formatCurrency(totalOf(assets)),
   calcLiquidAssets |-> formatCurrency(liquidOf(assets))]

\* updateAssetData() once the rows are rows: the auto-save of the list,
\* then updateAssetCalculations
updateAssetData(rows) ==
  /\ saves < MaxEdits
  /\ form' = [form EXCEPT !.assets = rows]
  /\ borrower' = saveFields(borrower, [assets |-> collectAssets(rows)])
  /\ calculations' = calculateBorrowerMetrics(borrower')
  /\ preview' = [preview EXCEPT
                   !.assets = updateAssetCalculations(collectAssets(rows))]
  /\ saves' = saves + 1
  /\ UNCHANGED calls
  /\ UNCHANGED otherVars

AssetInit ==
  /\ borrower = NewBorrower
  /\ form = NewBorrower
  /\ calculations = calculateBorrowerMetrics(NewBorrower)
  /\ preview = updateAllCalculations(NewBorrower) @@
               [assets |-> updateAssetCalculations(<<>>)]
  /\ saves = 0
  /\ calls = NoCalls
  /\ OtherInit

\* addAsset(): the row is appended, nothing is saved or recalculated
AddAsset ==
  /\ Len(form.assets) < MaxAssets
  /\ form' = [form EXCEPT !.assets = Append(@, NewAssetRow)]
  /\ UNCHANGED <<borrower, calculations, preview, saves, calls>>
  /\ UNCHANGED otherVars

\* removeAsset(index)
RemoveAsset ==
  \E i \in 1..Len(form.assets) :
    updateAssetData(SubSeq(form.assets, 1, i - 1) \o
                    SubSeq(form.assets, i + 1, Len(form.assets)))

\* a change event of a type select
EditAssetType ==
  \E i \in 1..Len(form.assets), t \in AssetTypes :
    /\ t # form.assets[i].type
    /\ updateAssetData([form.assets EXCEPT ![i].type = t])

\* an input or change event of a balance
EditAssetBalance ==
  \E i \in 1..Len(form.assets), b \in AssetBalances :
    /\ b # form.assets[i].balance
    /\ updateAssetData([form.assets EXCEPT ![i].balance = b])

AssetNext ==
  \/ AddAsset
  \/ RemoveAsset
  \/ EditAssetType
  \/ EditAssetBalance

AssetSpec == AssetInit /\ [][AssetNext]_vars

\* the sum of the balances of the rows whose type is in types
BalanceSum(rows, types) ==
  SumR([i \in 1..Len(rows) |->
          IF rows[i].type \in types
          THEN OrElse(ParseFloat(rows[i].balance), Zero) ELSE Zero])

NonNegativeBalances(rows) ==
  \A i \in 1..Len(rows) :
    RLe(Zero, OrElse(ParseFloat(rows[i].balance), Zero))

\* C17: totalAssets is the sum of all balances and liquidAssets the sum of
\* the balances of the assets whose type is not "401(k)/IRA", in the engine
\* and on the page; with non-negative balances liquidAssets <= totalAssets
C17_LiquidExcludesRetirementOnly ==
  /\ calculations.totalAssets = BalanceSum(borrower.assets, AssetTypes)
  /\ calculations.liquidAssets
       = BalanceSum(borrower.assets, AssetTypes \ {"401(k)/IRA"})
  /\ preview.assets.total = BalanceSum(borrower.assets, AssetTypes)
  /\ preview.assets.liquid
       = BalanceSum(borrower.assets, AssetTypes \ {"401(k)/IRA"})
  /\ calculations.totalAssets = BalanceSum(form.assets, AssetTypes)
  /\ calculations.liquidAssets
       = BalanceSum(form.assets, AssetTypes \ {"401(k)/IRA"})
  /\ NonNegativeBalances(borrower.assets)
       => RLe(calculations.liquidAssets, calculations.totalAssets)

\* 50000 in a 401(k)/IRA and 20000 in savings: 70000 in all, 20000 liquid
C17_Witness ==
  /\ Len(borrower.assets) = 2
  /\ borrower.assets[1].type = "401(k)/IRA"
  /\ borrower.assets[2].type = "Savings"
  /\ calculations.totalAssets = R(70000)
  /\ calculations.liquidAssets = R(20000)
  /\ preview.assets.calcTotalAssets = <<"$", "7", "0", ",", "0", "0", "0">>
  /\ preview.assets.calcLiquidAssets = <<"$", "2", "0", ",", "0", "0", "0">>


(***************************************************************************)
(* calculateBorrowerMetrics statement by statement, for requests that are  *)
(* served at the same time.  Each request holds the row object its handler *)
(* read, and the locals of its call; the steps of the calls are            *)
(* interleaved freely, which includes the run-to-completion order of the   *)
(* event loop.                                                             *)
(***************************************************************************)
\* the handler passes the row it selected; snapshot keeps what the row was
\* at that moment
enterCall(row) ==
  [pc |-> "rowLocals", borrower |-> row, snapshot |-> row, v |-> <<>>,
   result |-> <<>>]

\* variant: the parsed lists are stored back into the record passed in,
\* without the previous employers
readRow_filtersInPlace(frame) ==
  [frame EXCEPT !.v = rowLocals(frame.borrower), !.pc = "withTotals",
                !.borrower.employers = CurrentEmployers(@)]

\* the statements that read the row into locals
readRow(frame) ==
  [frame EXCEPT !.v = rowLocals(frame.borrower), !.pc = "withTotals"]

addTotals(frame) ==
  [frame EXCEPT !.v = withTotals(frame.v), !.pc = "withPayment"]

addPayment(frame) ==
  [frame EXCEPT !.v = withPayment(frame.v), !.pc = "withPITI"]

addPITI(frame) ==
  [frame EXCEPT !.v = withPITI(frame.v), !.pc = "metricsOf"]

\* the return statement: a new object built from the locals
returnMetrics(frame) ==
  [frame EXCEPT !.result = metricsOf(frame.v), !.pc = "done"]

\* the bodies of the save requests
EngineBodies ==
  {[employers |-> <<Employer("salary", <<"1", "2", "0", "0">>, Null, Null,
                             Null, FALSE)>>],
   [employers |-> <<Employer("salary", <<"2", "4", "0", "0">>, Null, Null,
                             Null, TRUE)>>],
   [employers |-> <<>>],
   [purchase_price |-> <<"1", "0", "0", "0">>],
   [purchase_price |-> Null]}

\* POST /:id/save up to its call of calculateBorrowerMetrics
SaveRequest(r) ==
  \E data \in EngineBodies :
    /\ calls[r].pc = "idle"
    /\ saves < MaxSaves
    /\ borrower' = saveFields(borrower, data)
    /\ calls' = [calls EXCEPT ![r] = enterCall(borrower')]
    /\ saves' = saves + 1
    /\ UNCHANGED <<form, calculations, preview>>
    /\ UNCHANGED otherVars

\* GET /:id up to its call of calculateBorrowerMetrics
GetRequest(r) ==
  /\ calls[r].pc = "idle"
  /\ calls' = [calls EXCEPT ![r] = enterCall(borrower)]
  /\ UNCHANGED <<form, borrower, calculations, preview, saves>>
  /\ UNCHANGED otherVars

ReadRow(r) ==
  /\ calls[r].pc = "rowLocals"
  /\ calls' = [calls EXCEPT ![r] = readRow(@)]
  /\ UNCHANGED <<form, borrower, calculations, preview, saves>>
  /\ UNCHANGED otherVars

AddTotals(r) ==
  /\ calls[r].pc = "withTotals"
  /\ calls' = [calls EXCEPT ![r] = addTotals(@)]
  /\ UNCHANGED <<form, borrower, calculations, preview, saves>>
  /\ UNCHANGED otherVars

AddPayment(r) ==
  /\ calls[r].pc = "withPayment"
  /\ calls' = [calls EXCEPT ![r] = addPayment(@)]
  /\ UNCHANGED <<form, borrower, calculations, preview, saves>>
  /\ UNCHANGED otherVars

AddPITI(r) ==
  /\ calls[r].pc = "withPITI"
  /\ calls' = [calls EXCEPT ![r] = addPITI(@)]
  /\ UNCHANGED <<form, borrower, calculations, preview, saves>>
  /\ UNCHANGED otherVars

ReturnMetrics(r) ==
  /\ calls[r].pc = "metricsOf"
  /\ calls' = [calls EXCEPT ![r] = returnMetrics(@)]
  /\ UNCHANGED <<form, borrower, calculations, preview, saves>>
  /\ UNCHANGED otherVars

\* res.json({ ..., calculations })
Respond(r) ==
  /\ calls[r].pc = "done"
  /\ calculations' = calls[r].result
  /\ calls' = [calls EXCEPT ![r] = Idle]
  /\ UNCHANGED <<form, borrower, preview, saves>>
  /\ UNCHANGED otherVars

EngineNext ==
  \E r \in Requests :
    \/ SaveRequest(r)
    \/ GetRequest(r)
    \/ ReadRow(r)
    \/ AddTotals(r)
    \/ AddPayment(r)
    \/ AddPITI(r)
    \/ ReturnMetrics(r)
    \/ Respond(r)

EngineSpec == Init /\ [][EngineNext]_vars

InCall(r) == calls[r].pc # "idle"

Returned(r) == calls[r].pc = "done"

\* C18: a call leaves the record passed in as it was, list fields included;
\* what it returns is the metrics of that record alone, whatever the calls
\* of other requests are doing; two calls on identical records return
\* identical metrics
C18_DeterministicNoSideEffects ==
  /\ \A r \in Requests :
       InCall(r) => calls[r].borrower = calls[r].snapshot
  /\ \A r \in Requests :
       Returned(r)
         => calls[r].result = calculateBorrowerMetrics(calls[r].snapshot)
  /\ \A r1, r2 \in Requests :
       (Returned(r1) /\ Returned(r2)
          /\ calls[r1].snapshot = calls[r2].snapshot)
         => calls[r1].result = calls[r2].result

\* two calls have returned at the same time: one on a record with a previous
\* employer, one on a record saved meanwhile, with different metrics
C18_Witness ==
  /\ Returned("r1") /\ Returned("r2")
  /\ Len(calls["r1"].snapshot.employers) = 1
  /\ calls["r1"].snapshot.employers[1].is_previous
  /\ calls["r1"].borrower = calls["r1"].snapshot
  /\ calls["r1"].snapshot # calls["r2"].snapshot
  /\ calls["r1"].result # calls["r2"].result
  /\ borrower = calls["r2"].snapshot


\* the loan the solver reaches for the tier, from the locals v of the engine
SolvedLoan(targetDTI, v) == TierMaxLoan(TierMaxPI(targetDTI, v), v.monthlyRate)

\* backEndDTI of a Purchase at the given price with the assumed down-payment
\* fraction, everything else as in v, by the engine's own formulas; the loan
\* is price - fraction * price, which is NaN for an infinite price
BackEndDTIAt(price, v) ==
  LET loan == IF IsFinite(price)
              THEN RMul(price, RSub(R(1), AssumedFraction(v)))
              ELSE NaN
      piti == RAdd(RAdd(RAdd(principalAndInterest(loan, v.monthlyRate),
                             v.monthlyTaxes), v.monthlyInsurance),
                   v.monthlyHOA)
  IN  backEndDTI(v.totalMonthlyDebts, piti, v.totalMonthlyIncome)

\* the solver's half: the payment on the loan it reaches is maxPI
C19_PaymentOnMaxLoanIsMaxPI ==
  \A t \in Tiers :
    LET v == EngineLocals(borrower)
    IN  TierPriced(TierDTI[t], v)
          => principalAndInterest(SolvedLoan(TierDTI[t], v), v.monthlyRate)
               = TierMaxPI(TierDTI[t], v)

\* C19: for a tier with income, maxPI > 0 and monthlyRate > 0 the engine's
\* payment formula applied to maxLoan gives maxPI, and a Purchase at the
\* tier's max price with the assumed down-payment fraction has a backEndDTI
\* equal to the tier's target
C19_SolverInvertsAmortization ==
  \A t \in Tiers :
    LET v == EngineLocals(borrower)
    IN  TierPriced(TierDTI[t], v)
          => /\ principalAndInterest(SolvedLoan(TierDTI[t], v), v.monthlyRate)
                  = TierMaxPI(TierDTI[t], v)
             /\ BackEndDTIAt(calculations[t], v) = R(TierDTI[t])


(***************************************************************************)
(* The payment at realistic amounts.  The loan sizing and the payment      *)
(* formula of calculateBorrowerMetrics, with Math.pow kept to eight        *)
(* decimals and the payment carried in cents: loan * r * pow / (pow - 1)   *)
(* is taken as loan * r + loan * r / (pow - 1), which keeps every          *)
(* intermediate below 2^31.                                                *)
(***************************************************************************)
\* floor(x * 100 / d) by long division
CentsQuotient(x, d) == (x \div d) * 100 + ((x % d) * 100) \div d

\* Math.pow(1 + monthlyRate, numPayments), times 10^8
powFixed(monthlyRate) == PowFix(ToFix(RAdd(R(1), monthlyRate)), numPayments)

\* loanAmount * monthlyRate, in cents
interestCents(loan, monthlyRate) ==
  Floor(RMul(RMul(loan, monthlyRate), R(100)))

\* variant: the payment covers the interest and no principal
amortizedCents_interestOnly(interest, pow) == interest

\* interest * pow / (pow - 1), in cents, pow given times 10^8
amortizedCents(interest, pow) ==
  interest + CentsQuotient(interest * 10000, (pow - 100000000) \div 100)

\* principalAndInterest, in cents
paymentCents(loan, monthlyRate) ==
  IF RGt(loan, Zero) /\ RGt(monthlyRate, Zero)
  THEN amortizedCents(interestCents(loan, monthlyRate), powFixed(monthlyRate))
  ELSE 0

\* the loan and the payment returned for the row
paymentOf(row) ==
  [loanAmount |-> loanAmount(purchasePrice(row), downPaymentAmount(row)),
   principalAndInterest |->
     Frac(paymentCents(loanAmount(purchasePrice(row), downPaymentAmount(row)),
                       RDiv(RDiv(interestRate(row), R(100)), R(12))),
          100)]

PaymentInputs ==
  [purchase_price |-> {Null, <<"1", "0", "0", "0", "0", "0">>,
                       <<"2", "0", "0", "0", "0", "0">>,
                       <<"3", "0", "0", "0", "0", "0">>},
   down_payment_amount |-> {Null, <<"5", "0", "0", "0", "0">>,
                            <<"1", "0", "0", "0", "0", "0">>},
   interest_rate |-> {<<"7">>, <<"6", ".", "5">>, <<"3">>, <<"8">>, <<"0">>,
                      <<>>}]

PaymentInit ==
  /\ borrower = NewBorrower
  /\ form = NewBorrower
  /\ calculations = paymentOf(NewBorrower)
  /\ preview = updateAllCalculations(NewBorrower)
  /\ saves = 0
  /\ calls = NoCalls
  /\ OtherInit

\* POST /:id/save of one property field, as far as the payment goes
SavePaymentField(field, value) ==
  /\ saves < MaxEdits
  /\ value # form[field]
  /\ form' = [form EXCEPT ![field] = value]
  /\ borrower' = saveFields(borrower, field :> value)
  /\ calculations' = paymentOf(borrower')
  /\ saves' = saves + 1
  /\ UNCHANGED <<preview, calls>>
  /\ UNCHANGED otherVars

EditPurchasePrice ==
  \E value \in PaymentInputs.purchase_price :
    SavePaymentField("purchase_price", value)

EditDownPayment ==
  \E value \in PaymentInputs.down_payment_amount :
    SavePaymentField("down_payment_amount", value)

EditInterestRate ==
  \E value \in PaymentInputs.interest_rate :
    SavePaymentField("interest_rate", value)

PaymentNext ==
  \/ EditPurchasePrice
  \/ EditDownPayment
  \/ EditInterestRate

PaymentSpec == PaymentInit /\ [][PaymentNext]_vars

\* the balance in cents after one more payment of pay cents on a balance of
\* b cents at the monthly rate r, the interest rounded to the cent
NextBalance(b, r, pay) == b + MathRound(RMul(R(b), r)).n - pay

\* ... after n <= 12 more payments
RECURSIVE BalanceWithinYear(_, _, _, _)
BalanceWithinYear(b, r, pay, n) ==
  IF n = 0 THEN b
  ELSE LET next == NextBalance(b, r, pay)
       IN  IF next = next THEN BalanceWithinYear(next, r, pay, n - 1) ELSE b

\* ... after n more payments, a year at a time
RECURSIVE BalanceAfter(_, _, _, _)
BalanceAfter(b, r, pay, n) ==
  IF n <= 12 THEN BalanceWithinYear(b, r, pay, n)
  ELSE LET next == BalanceWithinYear(b, r, pay, 12)
       IN  IF next = next THEN BalanceAfter(next, r, pay, n - 12) ELSE b

\* pay cents a month is the fixed payment that retires the loan at the
\* monthly rate r with the 360th payment: a balance is left after 359
\* payments and, up to 25 dollars of rounding, none after 360
Amortizes(loan, r, pay) ==
  /\ Abs(BalanceAfter(Floor(RMul(loan, R(100))), r, pay, 360)) <= 2500
  /\ BalanceAfter(Floor(RMul(loan, R(100))), r, pay, 359) > 2500

PaymentRule(loan, r, cents) ==
  /\ (RGt(loan, Zero) /\ RGt(r, Zero)) => Amortizes(loan, r, cents)
  /\ ~(RGt(loan, Zero) /\ RGt(r, Zero)) => cents = 0
  /\ (loan = R(300000) /\ r = Frac(7, 1200))
       => (cents >= 199590 /\ cents <= 199592)

RowLoan(b) ==
  RSub(OrElse(ParseFloat(b.purchase_price), Zero),
       OrElse(ParseFloat(b.down_payment_amount), Zero))

ReturnedCents(c) == Floor(RMul(c.principalAndInterest, R(100)))

withPaymentCents(v) ==
  v @@ [principalAndInterest |->
          Frac(paymentCents(v.loanAmount, v.monthlyRate), 100)]

\* the income, loan and ratio entries of the object returned
scenarioFigures(v) ==
  [totalMonthlyIncome   |-> v.totalMonthlyIncome,
   totalMonthlyDebts    |-> v.totalMonthlyDebts,
   loanAmount           |-> v.loanAmount,
   ltv                  |-> ltv(v.loanAmount, v.purchasePrice),
   principalAndInterest |-> v.principalAndInterest,
   totalPITI            |-> v.totalPITI,
   frontEndDTI |-> frontEndDTI(v.totalPITI, v.totalMonthlyIncome),
   backEndDTI  |-> backEndDTI(v.totalMonthlyDebts, v.totalPITI,
                              v.totalMonthlyIncome)]

scenarioMetrics(row) ==
  scenarioFigures(withPITI(withPaymentCents(withTotals(rowLocals(row)))))

ScenarioEmployers ==
  {<<>>,
   <<Employer("salary", <<"8", "4", "0", "0", "0">>, Null, Null, Null,
              FALSE)>>,
   <<Employer("salary", <<"8", "4", "0", "0", "0">>, Null, Null, Null,
              TRUE)>>}

ScenarioDebts ==
  {<<>>, <<[type |-> "Auto Loan", monthly_payment |-> <<"4", "0", "0">>]>>}

ScenarioInputs ==
  [purchase_price |-> {Null, <<"3", "5", "0", "0", "0", "0">>,
                       <<"2", "0", "0", "0", "0", "0">>},
   down_payment_amount |-> {Null, <<"1", "7", "5", "0", "0">>,
                            <<"4", "0", "0", "0", "0">>},
   interest_rate |-> {<<"7">>, <<"6", ".", "5">>, <<>>},
   property_taxes_annual |-> {Null, <<"3", "0", "0", "0">>},
   insurance_annual |-> {Null, <<"1", "2", "0", "0">>},
   hoa_monthly |-> {Null, <<"0">>, <<"5", "0">>}]

ScenarioInit ==
  /\ borrower = NewBorrower
  /\ form = NewBorrower
  /\ calculations = scenarioMetrics(NewBorrower)
  /\ preview = updateAllCalculations(NewBorrower)
  /\ saves = 0
  /\ calls = NoCalls
  /\ OtherInit

\* POST /:id/save of one field, as far as the figures above go
SaveScenarioField(field, value) ==
  /\ value # form[field]
  /\ form' = [form EXCEPT ![field] = value]
  /\ borrower' = saveFields(borrower, field :> value)
  /\ calculations' = scenarioMetrics(borrower')
  /\ UNCHANGED <<preview, saves, calls>>
  /\ UNCHANGED otherVars

EditScenarioEmployers ==
  \E value \in ScenarioEmployers : SaveScenarioField("employers", value)

EditScenarioDebts ==
  \E value \in ScenarioDebts : SaveScenarioField("debts", value)

EditScenarioProperty ==
  \E field \in DOMAIN ScenarioInputs :
    \E value \in ScenarioInputs[field] : SaveScenarioField(field, value)

ScenarioNext ==
  \/ EditScenarioEmployers
  \/ EditScenarioDebts
  \/ EditScenarioProperty

ScenarioSpec == ScenarioInit /\ [][ScenarioNext]_vars

\* the row of the scenario: no co-borrower, one current salaried employer at
\* 84000 a year, no other income, one debt of 400 a month, a Purchase of
\* 350000 with 17500 down at 6.5%, taxes 3000 and insurance 1200 a year,
\* HOA 0
ScenarioRow(b) ==
  /\ b.has_coborrower = 0
  /\ b.loan_purpose = "Purchase"
  /\ Len(b.employers) = 1
  /\ b.employers[1].pay_type = "salary"
  /\ ~b.employers[1].is_previous
  /\ ParseFloat(b.employers[1].annual_salary) = R(84000)
  /\ b.other_income = <<>>
  /\ Len(b.debts) = 1
  /\ ParseFloat(b.debts[1].monthly_payment) = R(400)
  /\ ParseFloat(b.purchase_price) = R(350000)
  /\ ParseFloat(b.down_payment_amount) = R(17500)
  /\ ParseFloat(b.interest_rate) = Frac(65, 10)
  /\ ParseFloat(b.property_taxes_annual) = R(3000)
  /\ ParseFloat(b.insurance_annual) = R(1200)
  /\ OrElse(ParseFloat(b.hoa_monthly), Zero) = Zero

\* x is about the figure n / d: it differs from it by at most tol
About(x, n, d, tol) ==
  /\ RLe(RSub(Frac(n, d), tol), x)
  /\ RLe(x, RAdd(Frac(n, d), tol))

\* a dollar figure quoted to the cent, a ratio quoted to one decimal
CentTolerance == Frac(2, 100)

TenthTolerance == Frac(5, 100)

\* the figures of the scenario with the payment p / 100
ScenarioFiguresWith(c, p) ==
  /\ c.totalMonthlyIncome = R(7000)
  /\ c.loanAmount = R(332500)
  /\ About(c.ltv, 950, 10, TenthTolerance)
  /\ About(c.principalAndInterest, p, 100, CentTolerance)
  /\ About(c.totalPITI, p + 35000, 100, CentTolerance)
  /\ About(c.frontEndDTI, 350, 10, TenthTolerance)
  /\ About(c.backEndDTI, 407, 10, TenthTolerance)

\* C21: for the row of the scenario calculateBorrowerMetrics returns
\* totalMonthlyIncome 7000, loanAmount 332500, ltv about 95.0,
\* principalAndInterest about 2101.13, totalPITI about 2451.13, frontEndDTI
\* about 35.0 and backEndDTI about 40.7
C21_EndToEndScenario ==
  ScenarioRow(borrower) => ScenarioFiguresWith(calculations, 210113)

\* C21 as amended: the same with principalAndInterest about 2101.63 and
\* totalPITI about 2451.63
C21_EndToEndScenarioPayment ==
  ScenarioRow(borrower) => ScenarioFiguresWith(calculations, 210163)

\* the scenario has been saved
C21_Witness ==
  /\ ScenarioRow(borrower)
  /\ calculations.totalMonthlyIncome = R(7000)
  /\ calculations.loanAmount = R(332500)
  /\ RGt(calculations.principalAndInterest, R(2101))


(***************************************************************************)
(* The export to Arive and to Zapier: the status column of the borrowers   *)
(* table, the zapier_webhooks table and the handlers that write them.  A   *)
(* handler runs from one await to the next without interruption; at an     *)
(* await the handlers of other requests may run.                           *)
(***************************************************************************)
MaxRequests == 2

MaxWebhooks == 2

\* what .get() returns when no row matches
Absent == <<"undefined">>

\* the row written by INSERT INTO borrowers (status) VALUES ('draft')
NewRow(id) == [id |-> id, status |-> "draft", updated_at |-> 0] @@ NewBorrower

BorrowerIds == {1, 2}

WebhookUrls == {"https://hooks.example/a", "https://hooks.example/b"}

\* event / event_type of a registration body: absent (""), or another event
EventTypes == {"", "borrower.exported"}

\* what createLead can end with: it throws for a missing key, a body that is
\* not JSON or a status that is not 2xx, and returns the parsed body
\* otherwise, which is an object or, for the body "null", null
CreateLeadOutcomes == {"no_api_key", "non_json", "non_2xx", "object", "null"}

\* UPDATE borrowers SET status = ?, updated_at = CURRENT_TIMESTAMP WHERE id = ?
updateStatus(table, id, status, t) ==
  IF id \in DOMAIN table
  THEN [table EXCEPT ![id].status = status, ![id].updated_at = t]
  ELSE table

\* SELECT * FROM borrowers WHERE id = ?
selectBorrower(table, id) == IF id \in DOMAIN table THEN table[id] ELSE Absent

\* a handler that has been entered
Handler(route, id) ==
  [route |-> route, id |-> id, pc |-> "start", outcome |-> "",
   event |-> "", webhooks |-> <<>>, delivered |-> <<>>, response |-> Null]

respond(frame, response) == [frame EXCEPT !.pc = "done", !.response = response]

\* the response after triggerWebhooks has returned
afterWebhooks(frame) ==
  IF frame.route = "send-to-arive"
  THEN respond(frame, [code |-> 200, success |-> TRUE, fallback |-> TRUE])
  ELSE respond(frame, [code |-> 200, success |-> TRUE, fallback |-> FALSE])

\* triggerWebhooks up to its first fetch: the rows of the event are
\* selected; with none the function returns at once
triggerWebhooks(frame, table, eventType) ==
  IF SelectSeq(table, LAMBDA w : w.event_type = eventType) = <<>>
  THEN afterWebhooks([frame EXCEPT !.event = eventType])
  ELSE [frame EXCEPT
          !.event = eventType,
          !.webhooks = SelectSeq(table, LAMBDA w : w.event_type = eventType),
          !.pc = "webhooks"]

\* the fetch of the next webhook has settled, resolved or rejected: the
\* rejection is caught and logged, the loop goes on
fetchSettled(frame, ok) ==
  IF Len(frame.delivered) + 1 = Len(frame.webhooks)
  THEN afterWebhooks([frame EXCEPT !.delivered =
         Append(@, [url |-> frame.webhooks[Len(@) + 1].webhook_url,
                    ok |-> ok])])
  ELSE [frame EXCEPT !.delivered =
         Append(@, [url |-> frame.webhooks[Len(@) + 1].webhook_url,
                    ok |-> ok])]

\* the status after createLead has settled.  When it returns, the try block
\* sets 'exported' and builds the response from ariveResponse.ariveLeadId;
\* for null that throws, and the catch block sets 'qualified' as it does
\* when createLead itself throws
statusAfterCreateLead(outcome) ==
  IF outcome = "object" THEN "exported" ELSE "qualified"

\* the handler after createLead has settled, up to its next await
afterCreateLead(frame, outcome, table) ==
  IF outcome = "object"
  THEN respond([frame EXCEPT !.outcome = outcome],
               [code |-> 200, success |-> TRUE, fallback |-> FALSE])
  ELSE triggerWebhooks([frame EXCEPT !.outcome = outcome], table,
                       "borrower.qualified")

ZapierInit ==
  /\ borrowers = (1 :> NewRow(1))
  /\ zapier_webhooks = <<>>
  /\ handlers = <<>>
  /\ borrowerData = <<>>
  /\ saveTimeout = Null
  /\ network = {}
  /\ session = Null
  /\ env = [ADMIN_PASSWORD |-> ""]
  /\ browser = Null
  /\ chromium = <<>>
  /\ log = [route |-> "", url |-> "", webhook_id |-> 0]
  /\ now = 0
  /\ form = NewBorrower
  /\ borrower = NewBorrower
  /\ calculations = calculateBorrowerMetrics(NewBorrower)
  /\ preview = updateAllCalculations(NewBorrower)
  /\ saves = 0
  /\ calls = NoCalls

\* POST /borrower/:id/send-to-arive up to await createLead
SendToArive ==
  \E id \in BorrowerIds :
    /\ Len(handlers) < MaxRequests
    /\ handlers' =
         Append(handlers,
                IF selectBorrower(borrowers, id) = Absent
                THEN respond(Handler("send-to-arive", id),
                             [code |-> 404, success |-> FALSE,
                              fallback |-> FALSE])
                ELSE [Handler("send-to-arive", id) EXCEPT !.pc = "createLead"])
    /\ UNCHANGED <<borrowers, zapier_webhooks>>
    /\ UNCHANGED <<engineVars, pageVars, authVars, headlessVars, log, now>>

\* await createLead settles
CreateLeadSettles ==
  \E r \in DOMAIN handlers :
    \E outcome \in CreateLeadOutcomes :
      /\ handlers[r].pc = "createLead"
      /\ borrowers' = updateStatus(borrowers, handlers[r].id,
                                   statusAfterCreateLead(outcome), now)
      /\ handlers' = [handlers EXCEPT ![r] =
                        afterCreateLead(@, outcome, zapier_webhooks)]
      /\ UNCHANGED zapier_webhooks
      /\ UNCHANGED <<engineVars, pageVars, authVars, headlessVars, log, now>>

\* the await fetch of triggerWebhooks settles
FetchSettles ==
  \E r \in DOMAIN handlers :
    \E ok \in BOOLEAN :
      /\ handlers[r].pc = "webhooks"
      /\ handlers' = [handlers EXCEPT ![r] = fetchSettled(@, ok)]
      /\ UNCHANGED <<borrowers, zapier_webhooks>>
      /\ UNCHANGED <<engineVars, pageVars, authVars, headlessVars, log, now>>

\* POST /zapier/borrower/:id/qualify up to the first await of triggerWebhooks
Qualify ==
  \E id \in BorrowerIds :
    /\ Len(handlers) < MaxRequests
    /\ borrowers' = updateStatus(borrowers, id, "qualified", now)
    /\ handlers' =
         Append(handlers,
                IF selectBorrower(borrowers', id) = Absent
                THEN afterWebhooks(Handler("qualify", id))
                ELSE triggerWebhooks(Handler("qualify", id), zapier_webhooks,
                                     "borrower.qualified"))
    /\ UNCHANGED zapier_webhooks
    /\ UNCHANGED <<engineVars, pageVars, authVars, headlessVars, log, now>>

\* POST /zapier/borrower/:id/exported
Exported ==
  \E id \in BorrowerIds :
    /\ Len(handlers) < MaxRequests
    /\ borrowers' = updateStatus(borrowers, id, "exported", now)
    /\ handlers' =
         Append(handlers,
                respond(Handler("exported", id),
                        [code |-> 200, success |-> TRUE, fallback |-> FALSE]))
    /\ UNCHANGED zapier_webhooks
    /\ UNCHANGED <<engineVars, pageVars, authVars, headlessVars, log, now>>

\* GET /zapier/borrowers: the rows whose status is 'qualified'
PollBorrowers ==
  /\ Len(handlers) < MaxRequests
  /\ handlers' =
       Append(handlers,
              respond(Handler("borrowers", 0),
                      [code |-> 200,
                       ids |-> {id \in DOMAIN borrowers :
                                  borrowers[id].status = "qualified"}]))
  /\ UNCHANGED <<borrowers, zapier_webhooks>>
  /\ UNCHANGED <<engineVars, pageVars, authVars, headlessVars, log, now>>

\* POST /webhooks/register: a URL already in the table is not inserted again
RegisterWebhook ==
  \E url \in WebhookUrls, event \in EventTypes :
    /\ zapier_webhooks' =
         IF \E i \in DOMAIN zapier_webhooks :
              zapier_webhooks[i].webhook_url = url
         THEN zapier_webhooks
         ELSE Append(zapier_webhooks,
                     [id |-> Len(zapier_webhooks) + 1, webhook_url |-> url,
                      event_type |-> IF event = ""
                                     THEN "borrower.qualified" ELSE event])
    /\ Len(zapier_webhooks') <= MaxWebhooks
    /\ log' = [route |-> "/webhooks/register", url |-> url,
               webhook_id |->
                 (CHOOSE i \in DOMAIN zapier_webhooks' :
                    /\ zapier_webhooks'[i].webhook_url = url
                    /\ \A j \in 1..(i - 1) :
                         zapier_webhooks'[j].webhook_url # url)]
    /\ UNCHANGED <<borrowers, handlers>>
    /\ UNCHANGED <<engineVars, pageVars, authVars, headlessVars, now>>

\* POST /api/zapier/webhooks: INSERT, whatever the table holds
SubscribeWebhook ==
  \E url \in WebhookUrls, event \in EventTypes :
    /\ Len(zapier_webhooks) < MaxWebhooks
    /\ zapier_webhooks' =
         Append(zapier_webhooks,
                [id |-> Len(zapier_webhooks) + 1, webhook_url |-> url,
                 event_type |-> IF event = ""
                                THEN "borrower.qualified" ELSE event])
    /\ log' = [route |-> "/api/zapier/webhooks", url |-> url,
               webhook_id |-> Len(zapier_webhooks')]
    /\ UNCHANGED <<borrowers, handlers>>
    /\ UNCHANGED <<engineVars, pageVars, authVars, headlessVars, now>>

ZapierNext ==
  \/ SendToArive
  \/ CreateLeadSettles
  \/ FetchSettles
  \/ Qualify
  \/ Exported
  \/ PollBorrowers
  \/ RegisterWebhook
  \/ SubscribeWebhook

ZapierSpec == ZapierInit /\ [][ZapierNext]_vars

\* the handler of request r answers in this step
Answers(r) ==
  /\ r \in DOMAIN handlers'
  /\ handlers'[r].pc = "done"
  /\ (r \in DOMAIN handlers => handlers[r].pc # "done")

\* createLead returned its lead
Succeeded(frame) == frame.outcome \in {"object", "null"}

\* the handler posted the event to every webhook subscribed to it
Triggered(frame, eventType) ==
  /\ frame.event = eventType
  /\ Len(frame.delivered) = Len(frame.webhooks)

\* C22: when send-to-arive on an existing borrower answers, the status is
\* 'exported' if and only if createLead succeeded; when createLead failed
\* the status is 'qualified', the borrower.qualified webhooks have been
\* triggered and the response is a success with fallback = true; the
\* handler always answers 200, whatever createLead and the webhook
\* deliveries did
C22_SendToAriveOutcome ==
  [][\A r \in DOMAIN handlers :
       (Answers(r) /\ handlers[r].route = "send-to-arive")
         => /\ handlers'[r].response.code = 200
            /\ handlers'[r].response.success
            /\ (borrowers'[handlers[r].id].status = "exported")
                 <=> Succeeded(handlers'[r])
            /\ ~Succeeded(handlers'[r])
                 => /\ borrowers'[handlers[r].id].status = "qualified"
                    /\ Triggered(handlers'[r], "borrower.qualified")
                    /\ handlers'[r].response.fallback]_vars

\* C23: a borrower whose status is 'exported' is never put back to
\* 'qualified'
C23_ExportedStaysExported ==
  [][\A id \in DOMAIN borrowers :
       borrowers[id].status = "exported"
         => borrowers'[id].status # "qualified"]_vars

\* the rows of the table that hold the URL
RowsOf(url) ==
  {i \in DOMAIN zapier_webhooks : zapier_webhooks[i].webhook_url = url}

\* C29: the table holds at most one row for a webhook_url; a registration
\* answers with the webhook_id of the one row of its URL, which is the
\* existing row when the URL was registered before; and a handler that
\* triggers an event posts it at most once to each URL
C29_OneRowPerUrl ==
  /\ \A url \in WebhookUrls : Cardinality(RowsOf(url)) <= 1
  /\ log.route # "" => RowsOf(log.url) = {log.webhook_id}
  /\ \A r \in DOMAIN handlers :
       \A i, j \in DOMAIN handlers[r].delivered :
         handlers[r].delivered[i].url = handlers[r].delivered[j].url => i = j

\* the same for the registrations made through POST /webhooks/register alone
C29_RegisterKeepsOneRowPerUrl ==
  [][(\A url \in WebhookUrls : Cardinality(RowsOf(url)) <= 1)
       /\ log'.route = "/webhooks/register"
       => /\ \A url \in WebhookUrls :
               Cardinality({i \in DOMAIN zapier_webhooks' :
                              zapier_webhooks'[i].webhook_url = url}) <= 1
          /\ (RowsOf(log'.url) # {}
                => /\ zapier_webhooks' = zapier_webhooks
                   /\ RowsOf(log'.url) = {log'.webhook_id})]_vars


(***************************************************************************)
(* Auto-save: the page collects the changes in borrowerData and sends them *)
(* when the timer runs out; the requests travel to the server one by one,  *)
(* in any order, and a request may fail.  Time is counted in ticks of      *)
(* 100 ms.                                                                 *)
(***************************************************************************)
MaxChanges == 3

\* setTimeout(..., 500)
DebounceTicks == 5

\* no timer is running: none was set, or the last one has fired
NoTimer == -1

AutoSaveFields == {"purchase_price", "hoa_monthly"}

AutoSaveValues == {<<"1">>, <<"2">>}

\* Object.assign(target, data)
ObjectAssign(target, data) ==
  [k \in DOMAIN target \cup DOMAIN data |->
     IF k \in DOMAIN data THEN data[k] ELSE target[k]]

\* variant: a timer that is running is left to run
restartTimer_keepRunning(timeout) ==
  IF timeout = NoTimer THEN DebounceTicks ELSE timeout

\* clearTimeout(saveTimeout); saveTimeout = setTimeout(..., 500)
restartTimer(timeout) == DebounceTicks

\* the UPDATE of POST /:id/save: the allowed fields of the body and
\* updated_at, when the body holds an allowed field; no statement otherwise
saveRow(table, id, data, t) ==
  IF id \in DOMAIN table /\ DOMAIN data \cap allowedFields # {}
  THEN [table EXCEPT ![id] = [saveFields(@, data) EXCEPT !.updated_at = t]]
  ELSE table

AutoSaveInit ==
  /\ borrowers = (1 :> NewRow(1))
  /\ borrowerData = <<>>
  /\ saveTimeout = NoTimer
  /\ network = {}
  /\ log = [changes |-> <<>>, sent |-> <<>>, quiet |-> DebounceTicks,
            served |-> <<>>, failed |-> {}]
  /\ now = 0
  /\ zapier_webhooks = <<>>
  /\ handlers = <<>>
  /\ session = Null
  /\ env = [ADMIN_PASSWORD |-> ""]
  /\ browser = Null
  /\ chromium = <<>>
  /\ form = NewBorrower
  /\ borrower = NewBorrower
  /\ calculations = calculateBorrowerMetrics(NewBorrower)
  /\ preview = updateAllCalculations(NewBorrower)
  /\ saves = 0
  /\ calls = NoCalls

\* a change event: scheduleAutoSave({ [field]: value })
ScheduleAutoSave ==
  \E field \in AutoSaveFields, value \in AutoSaveValues :
    /\ Len(log.changes) < MaxChanges
    /\ borrowerData' = ObjectAssign(borrowerData, field :> value)
    /\ saveTimeout' = restartTimer(saveTimeout)
    /\ log' = [log EXCEPT
                 !.changes = Append(@, [field |-> field, value |-> value]),
                 !.quiet = 0]
    /\ UNCHANGED <<network, serverVars, engineVars, authVars, headlessVars, now>>

\* 100 ms pass while the timer is running
Tick ==
  /\ saveTimeout > 0
  /\ saveTimeout' = saveTimeout - 1
  /\ log' = [log EXCEPT !.quiet = IF @ < DebounceTicks THEN @ + 1 ELSE @]
  /\ UNCHANGED <<borrowerData, network, serverVars, engineVars, authVars>>
  /\ UNCHANGED <<headlessVars, now>>

\* the timer callback: saveBorrowerData(borrowerData) up to its fetch, then
\* borrowerData = {}
TimerFires ==
  /\ saveTimeout = 0
  /\ network' = network \cup {[n |-> Len(log.sent) + 1, body |-> borrowerData]}
  /\ borrowerData' = <<>>
  /\ saveTimeout' = NoTimer
  /\ log' = [log EXCEPT
               !.sent = Append(@, [body |-> borrowerData,
                                   upto |-> Len(log.changes),
                                   quiet |-> log.quiet])]
  /\ UNCHANGED <<serverVars, engineVars, authVars, headlessVars, now>>

\* a request reaches POST /:id/save and is answered
ServerSaves ==
  \E req \in network :
    /\ borrowers' = saveRow(borrowers, 1, req.body, now)
    /\ network' = network \ {req}
    /\ log' = [log EXCEPT !.served = Append(@, req.n)]
    /\ UNCHANGED <<zapier_webhooks, handlers, borrowerData, saveTimeout>>
    /\ UNCHANGED <<engineVars, authVars, headlessVars, now>>

\* a request fails: fetch rejects, the catch block logs the error
RequestFails ==
  \E req \in network :
    /\ network' = network \ {req}
    /\ log' = [log EXCEPT !.failed = @ \cup {req.n}]
    /\ UNCHANGED <<serverVars, borrowerData, saveTimeout>>
    /\ UNCHANGED <<engineVars, authVars, headlessVars, now>>

AutoSaveNext ==
  \/ ScheduleAutoSave
  \/ Tick
  \/ TimerFires
  \/ ServerSaves
  \/ RequestFails

AutoSaveSpec == AutoSaveInit /\ [][AutoSaveNext]_vars

\* the changes from + 1 .. to, the later value of a field over the earlier
RECURSIVE Merged(_, _, _)
Merged(changes, from, to) ==
  IF to <= from THEN <<>>
  ELSE ObjectAssign(Merged(changes, from, to - 1),
                    changes[to].field :> changes[to].value)

\* the number of changes made when request k was issued
SentUpto(k) == IF k = 0 THEN 0 ELSE log.sent[k].upto

\* C24: request k carries the changes made since request k - 1, and only
\* those, with the latest value of each field, so every change is in
\* exactly one request; the changes made since the last request are the
\* pending set, which is empty after a request is issued, and they have a
\* running timer; the timer runs out 500 ms after the latest change, and a
\* request is issued only after 500 ms without a change
C24_Debounce ==
  /\ \A k \in DOMAIN log.sent :
       /\ SentUpto(k) > SentUpto(k - 1)
       /\ log.sent[k].body = Merged(log.changes, SentUpto(k - 1), SentUpto(k))
       /\ log.sent[k].quiet >= DebounceTicks
  /\ borrowerData
       = Merged(log.changes, SentUpto(Len(log.sent)), Len(log.changes))
  /\ DOMAIN borrowerData # {} => saveTimeout # NoTimer
  /\ saveTimeout # NoTimer => saveTimeout = DebounceTicks - log.quiet

\* two changes of one field within 500 ms have gone out in one request with
\* the later value, and a later change in a request of its own
C24_Witness ==
  /\ Len(log.sent) = 2
  /\ log.sent[1].upto = 2
  /\ log.changes[1].field = log.changes[2].field
  /\ log.changes[1].value # log.changes[2].value
  /\ log.sent[1].body = (log.changes[2].field :> log.changes[2].value)
  /\ log.sent[2].upto = 3
  /\ DOMAIN borrowerData = {}
  /\ saveTimeout = NoTimer

\* the last value entered for the field
LastEntered(field) ==
  log.changes[CHOOSE i \in DOMAIN log.changes :
                /\ log.changes[i].field = field
                /\ \A j \in DOMAIN log.changes :
                     j > i => log.changes[j].field # field].value

\* C25: when every request issued has completed and nothing is pending, the
\* row holds for each field the last value entered
C25_ServerHoldsLastEntered ==
  (network = {} /\ DOMAIN borrowerData = {} /\ saveTimeout = NoTimer)
    => \A i \in DOMAIN log.changes :
         borrowers[1][log.changes[i].field]
           = LastEntered(log.changes[i].field)

\* the same when the requests reach the server in the order they were issued
\* and none fails
C25_InOrderNoFailure ==
  (network = {} /\ DOMAIN borrowerData = {} /\ saveTimeout = NoTimer
     /\ log.failed = {}
     /\ \A i, j \in DOMAIN log.served : i < j => log.served[i] < log.served[j])
    => \A i \in DOMAIN log.changes :
         borrowers[1][log.changes[i].field]
           = LastEntered(log.changes[i].field)


(***************************************************************************)
(* The borrowers table under POST /:id/save, GET /:id,                     *)
(* GET /zapier/borrower/:id and DELETE /:id.  These handlers have no       *)
(* await: each runs to its response before the next request is taken.      *)
(***************************************************************************)
MaxTime == 3

\* the bodies of the save requests: allowed fields, fields that are not in
\* the allow-list, both, and none
SaveBodies ==
  {[purchase_price |-> <<"1", "0", "0", "0">>],
   [purchase_price |-> Null],
   [status |-> "qualified"],
   [loan_purpose |-> "Refinance"],
   [id |-> 2, updated_at |-> 0],
   [purchase_price |-> <<"2", "0", "0", "0">>, loan_purpose |-> "Refinance"],
   [employers |-> <<Employer("salary", <<"1", "2", "0", "0">>, Null, Null,
                             Null, FALSE)>>],
   <<>>}

\* DELETE FROM borrowers WHERE id = ?
deleteRow(table, id) == [i \in DOMAIN table \ {id} |-> table[i]]

\* what a handler answers after SELECT * FROM borrowers WHERE id = ? gave
\* row, when it tests the row before it calls calculateBorrowerMetrics
checkedMetrics(route, id, row) ==
  IF row = Absent
  THEN [route |-> route, id |-> id, body |-> <<>>, called |-> FALSE,
        argument |-> Absent, code |-> 404, calculations |-> <<>>]
  ELSE [route |-> route, id |-> id, body |-> <<>>, called |-> TRUE,
        argument |-> row, code |-> 200,
        calculations |-> calculateBorrowerMetrics(row)]

\* what POST /:id/save answers: calculateBorrowerMetrics is called with
\* whatever the SELECT gave; for undefined its first statement throws a
\* TypeError, which Express answers with 500
savedMetrics(id, data, row) ==
  IF row = Absent
  THEN [route |-> "save", id |-> id, body |-> data, called |-> TRUE,
        argument |-> Absent, code |-> 500, calculations |-> <<>>]
  ELSE [route |-> "save", id |-> id, body |-> data, called |-> TRUE,
        argument |-> row, code |-> 200,
        calculations |-> calculateBorrowerMetrics(row)]

StoreInit ==
  /\ borrowers = (1 :> NewRow(1)) @@ (2 :> NewRow(2))
  /\ log = [route |-> "", id |-> 0, body |-> <<>>, called |-> FALSE,
            argument |-> Absent, code |-> 0, calculations |-> <<>>]
  /\ now = 0
  /\ zapier_webhooks = <<>>
  /\ handlers = <<>>
  /\ borrowerData = <<>>
  /\ saveTimeout = Null
  /\ network = {}
  /\ session = Null
  /\ env = [ADMIN_PASSWORD |-> ""]
  /\ browser = Null
  /\ chromium = <<>>
  /\ form = NewBorrower
  /\ borrower = NewBorrower
  /\ calculations = calculateBorrowerMetrics(NewBorrower)
  /\ preview = updateAllCalculations(NewBorrower)
  /\ saves = 0
  /\ calls = NoCalls

\* POST /:id/save
PostSave ==
  \E id \in BorrowerIds, data \in SaveBodies :
    /\ now < MaxTime
    /\ now' = now + 1
    /\ borrowers' = saveRow(borrowers, id, data, now')
    /\ log' = savedMetrics(id, data, selectBorrower(borrowers', id))
    /\ UNCHANGED <<zapier_webhooks, handlers>>
    /\ UNCHANGED <<engineVars, pageVars, authVars, headlessVars>>

\* GET /:id
GetBorrower ==
  \E id \in BorrowerIds :
    /\ now < MaxTime
    /\ now' = now + 1
    /\ log' = checkedMetrics("get", id, selectBorrower(borrowers, id))
    /\ UNCHANGED serverVars
    /\ UNCHANGED <<engineVars, pageVars, authVars, headlessVars>>

\* GET /zapier/borrower/:id
GetZapierBorrower ==
  \E id \in BorrowerIds :
    /\ now < MaxTime
    /\ now' = now + 1
    /\ log' = checkedMetrics("zapier", id, selectBorrower(borrowers, id))
    /\ UNCHANGED serverVars
    /\ UNCHANGED <<engineVars, pageVars, authVars, headlessVars>>

\* DELETE /:id
DeleteBorrower ==
  \E id \in BorrowerIds :
    /\ now < MaxTime
    /\ now' = now + 1
    /\ borrowers' = deleteRow(borrowers, id)
    /\ log' = [route |-> "delete", id |-> id, body |-> <<>>,
               called |-> FALSE, argument |-> Absent, code |-> 200,
               calculations |-> <<>>]
    /\ UNCHANGED <<zapier_webhooks, handlers>>
    /\ UNCHANGED <<engineVars, pageVars, authVars, headlessVars>>

StoreNext ==
  \/ PostSave
  \/ GetBorrower
  \/ GetZapierBorrower
  \/ DeleteBorrower

StoreSpec == StoreInit /\ [][StoreNext]_vars

\* the fields of the body that are in the allow-list
Written(data) == DOMAIN data \cap allowedFields

\* C26: a save of borrower id writes the fields that are in the body and in
\* the allow-list with the values of the body, and updated_at; every other
\* column of the row and every other row stay as they were; with no such
\* field nothing is written, updated_at included; and the calculations
\* answered are those of the row as it is after the write
C26_SaveFrame ==
  [][(now' # now /\ log'.route = "save")
       => /\ DOMAIN borrowers' = DOMAIN borrowers
          /\ \A other \in DOMAIN borrowers \ {log'.id} :
               borrowers'[other] = borrowers[other]
          /\ log'.id \in DOMAIN borrowers
               => /\ \A c \in DOMAIN borrowers[log'.id] :
                       borrowers'[log'.id][c]
                         = IF c \in Written(log'.body) THEN log'.body[c]
                           ELSE IF c = "updated_at"
                                     /\ Written(log'.body) # {}
                                THEN now'
                                ELSE borrowers[log'.id][c]
                  /\ Written(log'.body) = {} => borrowers' = borrowers
                  /\ log'.calculations
                       = calculateBorrowerMetrics(borrowers'[log'.id])]_vars

\* a save whose body holds an allowed field and two fields that are not
\* allowed has been answered: only the allowed field was written
C26_Witness ==
  /\ log.route = "save"
  /\ log.id = 1
  /\ DOMAIN log.body = {"purchase_price", "loan_purpose"}
  /\ borrowers[1].purchase_price = <<"2", "0", "0", "0">>
  /\ borrowers[1].loan_purpose = "Purchase"
  /\ borrowers[1].updated_at = now
  /\ borrowers[2] = NewRow(2)
  /\ log.code = 200
  /\ log.calculations.loanAmount = R(2000)

\* C27: no route calls calculateBorrowerMetrics with a missing record: for
\* an id without a row the answer is not found or a no-op
C27_EngineNeverGetsMissingRow ==
  /\ log.called => log.argument # Absent
  /\ (log.route \in {"save", "get", "zapier"} /\ log.argument = Absent)
       => log.code \in {200, 404}

\* the same for the routes that test the row they selected
C27_CheckedRoutes ==
  log.route \in {"get", "zapier"}
    => /\ log.called => log.argument # Absent
       /\ log.argument = Absent => log.code = 404


(***************************************************************************)
(* Password protection: the session cookie of one client, the login and    *)
(* logout routes, and requireAuth in front of every route mounted after    *)
(* it.  Paths are sequences of characters.                                 *)
(***************************************************************************)
\* "/login"
LoginPath ==
  <<"/", "l", "o", "g", "i", "n">>

\* "/logout"
LogoutPath ==
  <<"/", "l", "o", "g", "o", "u", "t">>

\* "/css"
CssPrefix ==
  <<"/", "c", "s", "s">>

\* "/js"
JsPrefix ==
  <<"/", "j", "s">>

\* "/images"
ImagesPrefix ==
  <<"/", "i", "m", "a", "g", "e", "s">>

\* "/knowledge/webhook"
KnowledgeWebhookPath ==
  <<"/", "k", "n", "o", "w", "l", "e", "d", "g", "e", "/", "w", "e", "b",
    "h", "o", "o", "k">>

\* "/webhook/pathfinder-knowledge"
MailgunWebhookPath ==
  <<"/", "w", "e", "b", "h", "o", "o", "k", "/", "p", "a", "t", "h", "f",
    "i", "n", "d", "e", "r", "-", "k", "n", "o", "w", "l", "e", "d", "g",
    "e">>

\* the paths requested: the routes above, static files, pages and API
\* routes, and paths that only resemble an exempt one
RequestPaths ==
  {LoginPath, LogoutPath, KnowledgeWebhookPath, MailgunWebhookPath,
   <<"/">>,
   <<"/", "l", "o", "g", "i", "n", "2">>,
   <<"/", "c", "s", "s", "/", "a", ".", "c", "s", "s">>,
   <<"/", "c", "s", "s", "x">>,
   <<"/", "j", "s", "/", "a", "p", "p", ".", "j", "s">>,
   <<"/", "i", "m", "a", "g", "e", "s", "/", "a", ".", "p", "n", "g">>,
   <<"/", "b", "o", "r", "r", "o", "w", "e", "r", "s", "/", "1">>,
   <<"/", "a", "p", "i", "/", "z", "a", "p", "i", "e", "r", "/", "b", "o", "r", "r", "o", "w", "e", "r", "s">>,
   <<"/", "k", "n", "o", "w", "l", "e", "d", "g", "e">>}

Methods == {"GET", "POST", "DELETE"}

\* req.body.password; "" stands for undefined
Passwords == {"", "secret", "wrong"}

\* String.prototype.startsWith
StartsWith(str, prefix) ==
  /\ Len(str) >= Len(prefix)
  /\ SubSeq(str, 1, Len(prefix)) = prefix

\* variant: the login exemption is a prefix test like the others
requireAuth_loginPrefix(path, sess, environment) ==
  IF \/ StartsWith(path, LoginPath)
     \/ StartsWith(path, CssPrefix)
     \/ StartsWith(path, JsPrefix)
     \/ StartsWith(path, ImagesPrefix)
  THEN "next"
  ELSE IF path = KnowledgeWebhookPath \/ path = MailgunWebhookPath
  THEN "next"
  ELSE IF environment.ADMIN_PASSWORD = "" THEN "next"
  ELSE IF sess.authenticated THEN "next"
  ELSE "redirect /login"

\* requireAuth: next() or res.redirect('/login')
requireAuth(path, sess, environment) ==
  IF \/ path = LoginPath
     \/ StartsWith(path, CssPrefix)
     \/ StartsWith(path, JsPrefix)
     \/ StartsWith(path, ImagesPrefix)
  THEN "next"
  ELSE IF path = KnowledgeWebhookPath \/ path = MailgunWebhookPath
  THEN "next"
  ELSE IF environment.ADMIN_PASSWORD = "" THEN "next"
  ELSE IF sess.authenticated THEN "next"
  ELSE "redirect /login"

\* the request as logged with its answer
Answered(method, path, password, answer) ==
  [method |-> method, path |-> path, password |-> password,
   answer |-> answer]

AuthInit ==
  /\ env \in {[ADMIN_PASSWORD |-> ""], [ADMIN_PASSWORD |-> "secret"]}
  /\ session = [authenticated |-> FALSE]
  /\ log = Answered("", <<>>, "", "")
  /\ now = 0
  /\ borrowers = <<>>
  /\ zapier_webhooks = <<>>
  /\ handlers = <<>>
  /\ borrowerData = <<>>
  /\ saveTimeout = Null
  /\ network = {}
  /\ browser = Null
  /\ chromium = <<>>
  /\ form = NewBorrower
  /\ borrower = NewBorrower
  /\ calculations = calculateBorrowerMetrics(NewBorrower)
  /\ preview = updateAllCalculations(NewBorrower)
  /\ saves = 0
  /\ calls = NoCalls

\* app.get('/login')
GetLogin ==
  /\ now < MaxTime
  /\ now' = now + 1
  /\ log' = Answered("GET", LoginPath, "",
                     IF env.ADMIN_PASSWORD = "" THEN "redirect /"
                     ELSE "render login")
  /\ UNCHANGED <<session, env>>
  /\ UNCHANGED <<engineVars, serverVars, pageVars, headlessVars>>

\* app.post('/login')
PostLogin ==
  \E password \in Passwords :
    /\ now < MaxTime
    /\ now' = now + 1
    /\ session' = IF password = env.ADMIN_PASSWORD
                  THEN [session EXCEPT !.authenticated = TRUE]
                  ELSE session
    /\ log' = Answered("POST", LoginPath, password,
                       IF password = env.ADMIN_PASSWORD THEN "redirect /"
                       ELSE "render login")
    /\ UNCHANGED env
    /\ UNCHANGED <<engineVars, serverVars, pageVars, headlessVars>>

\* app.get('/logout'): req.session = null removes the cookie
GetLogout ==
  /\ now < MaxTime
  /\ now' = now + 1
  /\ session' = [authenticated |-> FALSE]
  /\ log' = Answered("GET", LogoutPath, "", "redirect /login")
  /\ UNCHANGED env
  /\ UNCHANGED <<engineVars, serverVars, pageVars, headlessVars>>

\* any other request: app.use(requireAuth), then the routes mounted after it
OtherRequest ==
  \E method \in Methods, path \in RequestPaths :
    /\ now < MaxTime
    /\ ~(path = LoginPath /\ method \in {"GET", "POST"})
    /\ ~(path = LogoutPath /\ method = "GET")
    /\ now' = now + 1
    /\ log' = Answered(method, path, "", requireAuth(path, session, env))
    /\ UNCHANGED <<session, env>>
    /\ UNCHANGED <<engineVars, serverVars, pageVars, headlessVars>>

AuthNext ==
  \/ GetLogin
  \/ PostLogin
  \/ GetLogout
  \/ OtherRequest

AuthSpec == AuthInit /\ [][AuthNext]_vars

\* the paths requireAuth lets through whatever the session is
Exempt(path) ==
  \/ path = LoginPath
  \/ StartsWith(path, CssPrefix)
  \/ StartsWith(path, JsPrefix)
  \/ StartsWith(path, ImagesPrefix)
  \/ path \in {KnowledgeWebhookPath, MailgunWebhookPath}

\* the request of this step went through requireAuth
ThroughRequireAuth ==
  /\ now' # now
  /\ ~(log'.path = LoginPath /\ log'.method \in {"GET", "POST"})
  /\ ~(log'.path = LogoutPath /\ log'.method = "GET")

\* C28: with ADMIN_PASSWORD set, a request reaches the routes behind
\* requireAuth only if the session is authenticated or the path is exempt,
\* and is redirected to /login otherwise; a session becomes authenticated
\* only by POST /login with the exact password; after GET /logout the
\* session is not authenticated; without ADMIN_PASSWORD every request
\* reaches the routes
C28_RequireAuth ==
  [][/\ (ThroughRequireAuth /\ env.ADMIN_PASSWORD # "")
          => /\ log'.answer = "next"
                  <=> (session.authenticated \/ Exempt(log'.path))
             /\ log'.answer # "next" => log'.answer = "redirect /login"
     /\ (ThroughRequireAuth /\ env.ADMIN_PASSWORD = "")
          => log'.answer = "next"
     /\ (env.ADMIN_PASSWORD # "" /\ ~session.authenticated
           /\ session'.authenticated)
          => /\ log'.method = "POST" /\ log'.path = LoginPath
             /\ log'.password = env.ADMIN_PASSWORD
     /\ (now' # now /\ log'.method = "GET" /\ log'.path = LogoutPath)
          => ~session'.authenticated]_vars

\* a protected page has been reached after a login with the password
C28_Witness ==
  /\ env.ADMIN_PASSWORD = "secret"
  /\ session.authenticated
  /\ log.path = <<"/", "b", "o", "r", "r", "o", "w", "e", "r", "s", "/", "1">>
  /\ log.answer = "next"


(***************************************************************************)
(* The headless browser: the module variable browser, the browser          *)
(* processes launched and their open pages, and the scrape requests that   *)
(* use them.  A request runs from one await to the next without            *)
(* interruption.                                                           *)
(***************************************************************************)
\* let browser = null
NoBrowser == 0

\* a scrape request for a source with requires_js that has been entered
Scrape(pc, instance) ==
  [route |-> "scrape", pc |-> pc, instance |-> instance, fetched |-> FALSE,
   code |-> 0]

\* browser && browser.isConnected()
isConnected(b, processes) == b # NoBrowser /\ processes[b].connected

\* getBrowser up to its first await: the connected browser is returned,
\* otherwise a launch follows
getBrowser(b, processes) ==
  IF isConnected(b, processes) THEN Scrape("newPage", b)
  ELSE Scrape("launch", NoBrowser)

\* the error handler of the scrape route
scrapeFailed(frame) == [frame EXCEPT !.pc = "done", !.code = 500]

HeadlessInit ==
  /\ browser = NoBrowser
  /\ chromium = <<>>
  /\ handlers = <<>>
  /\ borrowers = <<>>
  /\ zapier_webhooks = <<>>
  /\ borrowerData = <<>>
  /\ saveTimeout = Null
  /\ network = {}
  /\ session = Null
  /\ env = [ADMIN_PASSWORD |-> ""]
  /\ log = <<>>
  /\ now = 0
  /\ form = NewBorrower
  /\ borrower = NewBorrower
  /\ calculations = calculateBorrowerMetrics(NewBorrower)
  /\ preview = updateAllCalculations(NewBorrower)
  /\ saves = 0
  /\ calls = NoCalls

\* POST /url/:id/scrape up to the first await of getBrowser
StartScrape ==
  /\ Len(handlers) < MaxRequests
  /\ handlers' = Append(handlers, getBrowser(browser, chromium))
  /\ UNCHANGED <<borrowers, zapier_webhooks, headlessVars>>
  /\ UNCHANGED <<engineVars, pageVars, authVars, log, now>>

\* browser = await pptr.launch(...): a new process, stored in browser
LaunchReturns ==
  \E r \in DOMAIN handlers :
    /\ handlers[r].pc = "launch"
    /\ chromium' = Append(chromium, [connected |-> TRUE, pages |-> {}])
    /\ browser' = Len(chromium')
    /\ handlers' = [handlers EXCEPT ![r] = Scrape("newPage", browser')]
    /\ UNCHANGED <<borrowers, zapier_webhooks>>
    /\ UNCHANGED <<engineVars, pageVars, authVars, log, now>>

\* pptr.launch rejects: no process, the scrape answers 500
LaunchThrows ==
  \E r \in DOMAIN handlers :
    /\ handlers[r].pc = "launch"
    /\ handlers' = [handlers EXCEPT ![r] = scrapeFailed(@)]
    /\ UNCHANGED <<borrowers, zapier_webhooks, headlessVars>>
    /\ UNCHANGED <<engineVars, pageVars, authVars, log, now>>

\* await browserInstance.newPage(): a page of the request's browser, or an
\* error when that browser has been closed
NewPage ==
  \E r \in DOMAIN handlers :
    /\ handlers[r].pc = "newPage"
    /\ IF chromium[handlers[r].instance].connected
       THEN /\ chromium' = [chromium EXCEPT ![handlers[r].instance].pages =
                              @ \cup {r}]
            /\ handlers' = [handlers EXCEPT ![r].pc = "fetch"]
       ELSE /\ chromium' = chromium
            /\ handlers' = [handlers EXCEPT ![r] = scrapeFailed(@)]
    /\ UNCHANGED <<borrowers, zapier_webhooks, browser>>
    /\ UNCHANGED <<engineVars, pageVars, authVars, log, now>>

\* the try block of fetchWithBrowser settles: the content is there, or
\* goto or content has thrown, as they do when the browser has been closed
PageFetched ==
  \E r \in DOMAIN handlers :
    \E ok \in BOOLEAN :
      /\ handlers[r].pc = "fetch"
      /\ ok => chromium[handlers[r].instance].connected
      /\ handlers' = [handlers EXCEPT ![r].pc = "closePage",
                                      ![r].fetched = ok]
      /\ UNCHANGED <<borrowers, zapier_webhooks, headlessVars>>
      /\ UNCHANGED <<engineVars, pageVars, authVars, log, now>>

\* finally { await page.close() }, then the html or the error goes back to
\* the route; closeBrowser is called after a fetch that succeeded
PageClosed ==
  \E r \in DOMAIN handlers :
    /\ handlers[r].pc = "closePage"
    /\ chromium' = [chromium EXCEPT ![handlers[r].instance].pages = @ \ {r}]
    /\ handlers' =
         [handlers EXCEPT ![r] =
            IF handlers[r].fetched /\ chromium[handlers[r].instance].connected
            THEN [@ EXCEPT !.pc = "closeBrowser"]
            ELSE scrapeFailed(@)]
    /\ UNCHANGED <<borrowers, zapier_webhooks, browser>>
    /\ UNCHANGED <<engineVars, pageVars, authVars, log, now>>

\* closeBrowser up to await browser.close(): the process browser refers to
\* is closed with all its pages; with no browser the route goes on
CloseBrowser ==
  \E r \in DOMAIN handlers :
    /\ handlers[r].pc = "closeBrowser"
    /\ IF browser # NoBrowser
       THEN /\ chromium' = [chromium EXCEPT ![browser].connected = FALSE,
                                            ![browser].pages = {}]
            /\ handlers' = [handlers EXCEPT ![r].pc = "browserClosed"]
       ELSE /\ chromium' = chromium
            /\ handlers' = [handlers EXCEPT ![r].pc = "done", ![r].code = 200]
    /\ UNCHANGED <<borrowers, zapier_webhooks, browser>>
    /\ UNCHANGED <<engineVars, pageVars, authVars, log, now>>

\* browser = null after the await, then the content is stored and answered
BrowserClosed ==
  \E r \in DOMAIN handlers :
    /\ handlers[r].pc = "browserClosed"
    /\ browser' = NoBrowser
    /\ handlers' = [handlers EXCEPT ![r].pc = "done", ![r].code = 200]
    /\ UNCHANGED <<borrowers, zapier_webhooks, chromium>>
    /\ UNCHANGED <<engineVars, pageVars, authVars, log, now>>

HeadlessNext ==
  \/ StartScrape
  \/ LaunchReturns
  \/ LaunchThrows
  \/ NewPage
  \/ PageFetched
  \/ PageClosed
  \/ CloseBrowser
  \/ BrowserClosed

HeadlessSpec == HeadlessInit /\ [][HeadlessNext]_vars

\* the browser processes that are alive
Alive == {i \in DOMAIN chromium : chromium[i].connected}

\* the request is inside fetchWithBrowser with a browser in hand
UsingBrowser(r) == handlers[r].pc \in {"newPage", "fetch"}

\* C30: at most one browser process is alive at a time; a request that has
\* left fetchWithBrowser has no page open; and the browser a request is
\* using inside fetchWithBrowser has not been closed
C30_SharedBrowser ==
  /\ Cardinality(Alive) <= 1
  /\ \A r \in DOMAIN handlers :
       handlers[r].pc \in {"closeBrowser", "browserClosed", "done"}
         => \A i \in DOMAIN chromium : r \notin chromium[i].pages
  /\ \A r \in DOMAIN handlers :
       UsingBrowser(r) => chromium[handlers[r].instance].connected

\* the part on pages alone
C30_PagesClosed ==
  \A r \in DOMAIN handlers :
    handlers[r].pc \in {"closeBrowser", "browserClosed", "done"}
      => \A i \in DOMAIN chromium : r \notin chromium[i].pages

\* the part on the number of processes alone
C30_OneBrowserAlive == Cardinality(Alive) <= 1

\* the part on closeBrowser alone
C30_NotClosedWhileInUse ==
  \A r \in DOMAIN handlers :
    UsingBrowser(r) => chromium[handlers[r].instance].connected

====
